---- MODULE Spec2Model ----
(***************************************************************************)
(* State-machine model of fs100.py: the FS100 High Speed Ethernet client.  *)
(* Threads call public operations of FS100 instances; all instances share  *)
(* the class attribute FS100.transmission_lock (a reentrant lock).  The    *)
(* controller and the UDP socket layer are the environment: every sendall  *)
(* and recvfrom may raise a socket error, and every received datagram is   *)
(* chosen from a small set of byte strings.                                *)
(***************************************************************************)
EXTENDS Integers, Sequences, FiniteSets, TLC

VARIABLES
    lock,    \* FS100.transmission_lock: [owner, count] of the RLock
    sock,    \* self._sock of every instance: None or the state of the socket
    errno,   \* self.errno of every instance
    th       \* per thread: position in the code and the local variables

vars == <<lock, sock, errno, th>>

----------------------------------------------------------------------------
(* Bounds of the model *)

\* operations called in one run, by all threads together
MaxCalls == 2
\* answers without the terminal bit that a controller gives in one file
\* operation, to a thread alone and beside another thread
MaxBlocks == 3
MaxBlocksConc == 1
\* the addresses handed to _group_nums on its own are 0..MaxAddr, at most
\* MaxAddrs of them in a list
MaxAddr == 3
MaxAddrs == 3

Threads == {"t1", "t2"}
Insts == {"r1", "r2"}
NoThread == "nobody"

----------------------------------------------------------------------------
(* Program constants *)

HEADER_SIZE == 32
HEADER_RESERVED_1 == 3
HEADER_DIVISION_ROBOT_CONTROL == 1
HEADER_DIVISION_FILE_CONTROL == 2
HEADER_ACK_REQUEST == 0
HEADER_ACK_NOT_REQUEST == 1
HEADER_PADDING == 0

UDP_PORT_ROBOT_CONTROL == 10040
UDP_PORT_FILE_CONTROL == 10041

TRANSMISSION_SEND == 1
TRANSMISSION_SEND_AND_RECV == 2

ERROR_SUCCESS == 0
ERROR_CONNECTION == 1
ERROR_NO_SUCH_FILE_OR_DIRECTORY == 2

POWER_TYPE_SERVO == 2
POWER_SWITCH_ON == 1

\* FS100.VarType
VarType_IO == 120
VarType_REGISTER == 121
VarType_BYTE == 122
VarType_INTEGER == 123
VarType_DOUBLE == 124
VarType_REAL == 125
VarType_STRING == 126
VarType_ROBOT_POSITION == 127
VarType_BASE_POSITION == 128
VarType_EXTERNAL_AXIS == 129

CHUNK_SIZE == 400
\* 0xe2b3, the errno of a missing local file or directory
ENOENT_ADDED == 58035
\* recvfrom(512)
RECV_BUFSIZE == 512

----------------------------------------------------------------------------
(* Bytes and 32-bit block numbers.                                         *)
(* A block number is kept as its low 31 bits and its top bit (0x80000000), *)
(* the "final chunk" marker.                                               *)

Min(a, b) == IF a < b THEN a ELSE b
Max(a, b) == IF a > b THEN a ELSE b

Zeros(n) == [i \in 1..n |-> 0]

Blk(n, top) == [n |-> n, top |-> top]
HEADER_BLOCK_NUMBER_REQ == Blk(0, FALSE)

\* block_no & 0x80000000 != 0
IsTerminal(b) == b.top
\* block_no |= 0x80000000
OrTerminal(b) == [b EXCEPT !.top = TRUE]
\* block_no += 1
BlkInc(b) == [b EXCEPT !.n = b.n + 1]

\* struct.pack('<H', n)
PackH(n) == <<n % 256, (n \div 256) % 256>>
\* struct.pack('<I', block_no)
PackBlk(b) == <<b.n % 256, (b.n \div 256) % 256, (b.n \div 65536) % 256,
               ((b.n \div 16777216) % 128) + (IF b.top THEN 128 ELSE 0)>>

\* packet[i:j] of Python: the bytes at 0-based offsets i..j-1 that exist
Slice(p, i, j) == SubSeq(p, i + 1, Min(j, Len(p)))
\* struct.unpack raises struct.error when the slice is shorter than the format
CanUnpack(p, i, j) == Len(Slice(p, i, j)) = j - i
UnpackB(p, i) == p[i + 1]
UnpackH(p, i) == p[i + 1] + 256 * p[i + 2]
UnpackBlk(p, i) ==
    Blk(p[i + 1] + 256 * p[i + 2] + 65536 * p[i + 3] + 16777216 * (p[i + 4] % 128),
        p[i + 4] >= 128)

----------------------------------------------------------------------------
(* Packets *)

\* A request payload: literal bytes (names, arguments) and/or the slice
\* context[lo:hi] of the local file being sent.
Payload(bytes) == [bytes |-> bytes, lo |-> 0, hi |-> 0]
Chunk(lo, hi) == [bytes |-> <<>>, lo |-> lo, hi |-> hi]
PayloadLen(d) == Len(d.bytes) + (d.hi - d.lo)

\* 'YERC' and '99999999' in ASCII
HEADER_IDENTIFIER == <<89, 69, 82, 67>>
HEADER_RESERVED_2 == <<57, 57, 57, 57, 57, 57, 57, 57>>

\* FS100PacketHeader.__init__(packet=None, ...): the fields of a header
FS100PacketHeader(data_size, division, ack, req_id, block_no) ==
    [data_size |-> data_size, division |-> division, ack |-> ack,
     req_id |-> req_id, block_no |-> block_no]

\* FS100PacketHeader.to_bytes
HeaderToBytes(h) ==
    HEADER_IDENTIFIER \o PackH(HEADER_SIZE) \o PackH(h.data_size)
        \o <<HEADER_RESERVED_1, h.division, h.ack, h.req_id>>
        \o PackBlk(h.block_no) \o HEADER_RESERVED_2

\* A faulty variant of HeaderFromBytes: the data size read big-endian.
HeaderFromBytesBigEndian(p) ==
    FS100PacketHeader(256 * UnpackB(p, 6) + UnpackB(p, 7), UnpackB(p, 9), UnpackB(p, 10),
                      UnpackB(p, 11), UnpackBlk(p, 12))
\* FS100PacketHeader.__init__(packet): the fields read back from bytes
HeaderFromBytes(p) ==
    FS100PacketHeader(UnpackH(p, 6), UnpackB(p, 9), UnpackB(p, 10),
                      UnpackB(p, 11), UnpackBlk(p, 12))

\* FS100ReqPacket.__init__
FS100ReqPacket(division, req_id, cmd_no, inst, attr, service, data, data_size) ==
    [data_size |-> data_size, division |-> division,
     ack |-> HEADER_ACK_REQUEST, req_id |-> req_id,
     block_no |-> HEADER_BLOCK_NUMBER_REQ,
     cmd_no |-> cmd_no, inst |-> inst, attr |-> attr, service |-> service,
     data |-> data]

\* FS100ReqPacket.to_bytes: the 32 bytes of header and sub-header, followed
\* by the payload
ReqToBytes(req) ==
    [head |-> HeaderToBytes(req) \o PackH(req.cmd_no) \o PackH(req.inst)
                  \o <<req.attr, req.service>> \o PackH(HEADER_PADDING),
     data |-> req.data]

NoPacket == [head |-> <<>>, data |-> Payload(<<>>)]

\* the value None of an answer
NoAns == [data_size |-> 0, division |-> 0, ack |-> 0, req_id |-> 0,
          block_no |-> Blk(0, FALSE), service |-> 0, status |-> 0,
          added_status_size |-> 0, added_status |-> 0, data |-> <<>>,
          none |-> TRUE]

\* FS100AnsPacket.__init__ raises struct.error when a field's slice is short
AnsDecodable(p) ==
    /\ CanUnpack(p, 6, 8) /\ CanUnpack(p, 9, 10) /\ CanUnpack(p, 10, 11)
    /\ CanUnpack(p, 11, 12) /\ CanUnpack(p, 12, 16)
    /\ CanUnpack(p, 24, 25) /\ CanUnpack(p, 25, 26) /\ CanUnpack(p, 26, 27)
    /\ CanUnpack(p, 28, 30)

\* A faulty variant of FS100AnsPacket: the added status read big-endian.
FS100AnsPacketBigEndian(p) ==
    LET h == HeaderFromBytes(p) IN
    [data_size |-> h.data_size, division |-> h.division, ack |-> h.ack,
     req_id |-> h.req_id, block_no |-> h.block_no,
     service |-> UnpackB(p, 24), status |-> UnpackB(p, 25),
     added_status_size |-> UnpackB(p, 26),
     added_status |-> 256 * UnpackB(p, 28) + UnpackB(p, 29),
     data |-> Slice(p, HEADER_SIZE, HEADER_SIZE + h.data_size),
     none |-> FALSE]
\* FS100AnsPacket.__init__
FS100AnsPacket(p) ==
    LET h == HeaderFromBytes(p) IN
    [data_size |-> h.data_size, division |-> h.division, ack |-> h.ack,
     req_id |-> h.req_id, block_no |-> h.block_no,
     service |-> UnpackB(p, 24), status |-> UnpackB(p, 25),
     added_status_size |-> UnpackB(p, 26), added_status |-> UnpackH(p, 28),
     data |-> Slice(p, HEADER_SIZE, HEADER_SIZE + h.data_size),
     none |-> FALSE]

\* A faulty variant of generate_error_ans_packet: the two fields swapped.
GenerateErrorAnsPacketSwapped(result, err) ==
    Zeros(25) \o <<err % 256>> \o Zeros(2) \o PackH(result) \o Zeros(2)
\* FS100._generate_error_ans_packet
generate_error_ans_packet(result, err) ==
    Zeros(25) \o <<result>> \o Zeros(2) \o PackH(err) \o Zeros(2)

----------------------------------------------------------------------------
(* The environment: socket errors and the controller's datagrams *)

\* A socket.error and its errno attribute: <<>> is None (socket.timeout
\* carries no number), <<n>> is the platform's error number n.
SocketErrors == {[errno |-> <<>>], [errno |-> <<111>>]}
\* sendall on a datagram socket that was never connected: EDESTADDRREQ
NotConnectedError == [errno |-> <<89>>]

\* The datagram a controller sends: header, answer sub-header, payload
ControllerAnswer(status, added_status, block_no, data) ==
    HeaderToBytes(FS100PacketHeader(Len(data), HEADER_DIVISION_ROBOT_CONTROL,
                                    HEADER_ACK_NOT_REQUEST, 0, block_no))
        \o <<128, status, IF added_status = 0 THEN 0 ELSE 1, 0>>
        \o PackH(added_status) \o <<0, 0>> \o data

----------------------------------------------------------------------------
(* State *)

\* self._sock: None, or a datagram socket and the port it is connected to
\* (port 0: the socket exists but connect() did not succeed)
None == [open |-> FALSE, port |-> 0]
Socket(port) == [open |-> TRUE, port |-> port]

NoResult == [kind |-> "none", status |-> 0, exc |-> ""]
Returned(status) == [kind |-> "status", status |-> status, exc |-> ""]
Raised(exc) == [kind |-> "raised", status |-> 0, exc |-> exc]

\* A thread between two calls.  pc is the position in the code; op and inst
\* are the public operation being executed and the instance (self) it was
\* called on; packet .. txret are the locals of _transmit and where it
\* returns to; ans .. raw are the locals of the operation (context is the
\* length of the content read by send_file, raw the bytes accumulated by
\* recv_file and get_file_list), arg its argument, list the caller's list
\* and file the local file written, <<>> when none was; held0, errno0 and
\* sock0 are the thread's hold count, the instance's errno and its socket
\* when the operation was called; log .. caught
\* record what the operation has done so far (log holds the packets handed
\* to sendall, alog the answers _transmit returned, caught the socket error
\* of the last _transmit).  vars is the caller's list of Variable objects;
\* keys_lists, pending and rv_ret are the locals of read_variables (the runs
\* still to read, the keys still to read one by one in the current run, and
\* ret); cur holds the positions in vars of the objects the current
\* read_variable or _read_consecutive_variables call was given, sub_ret the
\* status that call returned to read_variables (<<>> before it returns).
Frame0 ==
    [pc |-> "idle", op |-> "none", inst |-> "r1", ncalls |-> 0,
     packet |-> NoPacket, direction |-> TRANSMISSION_SEND_AND_RECV,
     to_disc |-> FALSE, ans_packet |-> <<>>, ret |-> NoAns, txret |-> "idle",
     ans |-> NoAns, block_no |-> Blk(0, FALSE), context |-> 0, raw |-> <<>>,
     arg |-> <<>>, list |-> <<>>, file |-> <<>>, result |-> NoResult,
     held0 |-> 0, errno0 |-> 0, sock0 |-> None,
     log |-> <<>>, alog |-> <<>>, nsend |-> 0, nrecv |-> 0,
     caught |-> <<>>,
     vars |-> <<>>, keys_lists |-> <<>>, pending |-> <<>>, cur |-> <<>>,
     rv_ret |-> 0, sub_ret |-> <<>>]

InitSockets == sock = [i \in Insts |-> None] /\ errno = [i \in Insts |-> 0]
InitLock == lock = [owner |-> NoThread, count |-> 0]

\* the thread's hold count on the reentrant lock
HoldCount(t) == IF lock.owner = t THEN lock.count ELSE 0

----------------------------------------------------------------------------
(* threading.RLock *)

\* A faulty variant of CanAcquire: a lock that never blocks.
CanAcquireAnyway(t) == TRUE
\* acquire() returns at once for the owner and when the lock is free, and
\* blocks otherwise
CanAcquire(t) == lock.owner \in {NoThread, t}
Acquired(t) == [owner |-> t, count |-> lock.count + 1]
\* release() by the owner
Released(t) ==
    IF lock.count = 1 THEN [owner |-> NoThread, count |-> 0]
    ELSE [lock EXCEPT !.count = lock.count - 1]

----------------------------------------------------------------------------
(* Steps of a thread.  Set(t, f) makes f the frame of thread t. *)

Set(t, f) == th' = [th EXCEPT ![t] = f]
me(t) == th[t]

\* an exception leaves the operation: nothing of the operation runs after it
Raise(t, exc) == Set(t, [me(t) EXCEPT !.pc = "done", !.result = Raised(exc)])

\* FS100._connect(port): the three outcomes of creating and connecting the
\* socket when self._sock is None.  socket.socket() raising leaves _sock
\* None; settimeout()/connect() raising leaves the new socket in _sock.
ConnectOutcomes == {"ok", "socket_fails", "connect_fails"}
SockAfterConnect(i, port, outcome) ==
    IF sock[i] # None THEN sock[i]
    ELSE CASE outcome = "ok" -> Socket(port)
           [] outcome = "socket_fails" -> None
           [] outcome = "connect_fails" -> Socket(0)
ConnectRaises(i, outcome) == sock[i] = None /\ outcome # "ok"

\* FS100._disconnect
SockAfterDisconnect(i) == None

\* FS100._connected
Connected(i) == sock[i] # None

\* Entry of _transmit(packet, direction) from position `from`, to continue
\* at `to` when it returns
CallTransmit(f, packet, direction, to) ==
    [f EXCEPT !.pc = "tx_acquire", !.packet = packet, !.direction = direction,
              !.txret = to, !.ans_packet = <<>>, !.ret = NoAns, !.caught = <<>>,
              !.sub_ret = <<>>]

\* _transmit: FS100.transmission_lock.acquire()
tx_acquire(t) ==
    /\ me(t).pc = "tx_acquire"
    /\ CanAcquire(t)
    /\ lock' = Acquired(t)
    /\ Set(t, [me(t) EXCEPT !.pc = "tx_io"])
    /\ UNCHANGED <<sock, errno>>

\* the except clause of _transmit: errno = error.errno, ERROR_CONNECTION when
\* it is None; ans_packet is the generated error answer
ErrnoOf(e) == IF e.errno = <<>> THEN ERROR_CONNECTION ELSE e.errno[1]

Caught(f, e, at) ==
    [f EXCEPT !.pc = "tx_finish", !.caught = <<[errno |-> e.errno, at |-> at]>>,
              !.ans_packet = generate_error_ans_packet(ERROR_CONNECTION, ErrnoOf(e))]

\* the entry of the wire log for the packet of frame f sent on socket s
Sent(f, s) ==
    [head |-> f.packet.head, data |-> f.packet.data, direction |-> f.direction,
     port |-> s.port, to_disc |-> f.to_disc, thread_inst |-> f.inst]

\* _transmit, from the lock to the answer bytes: the socket is reused or
\* connected to the robot-control port (_connect() with its default), the
\* packet is sent with sendall and, when a reply is expected, one datagram
\* is received with recvfrom(512), the controller answering with one of the
\* datagrams D or not at all.  Every socket call may raise (sendall and
\* recvfrom with one of the errors E); the errors of sendall and recvfrom are
\* caught.
tx_io(t, D, E) ==
    /\ me(t).pc = "tx_io"
    /\ LET i == me(t).inst IN
       \E o \in IF Connected(i) THEN {"ok"} ELSE ConnectOutcomes :
          LET s == SockAfterConnect(i, UDP_PORT_ROBOT_CONTROL, o)
              f == [me(t) EXCEPT !.to_disc = ~Connected(i)] IN
          /\ sock' = [sock EXCEPT ![i] = s]
          /\ IF ConnectRaises(i, o)
             THEN Raise(t, "OSError")
             ELSE LET g == [f EXCEPT !.nsend = @ + 1]
                      h == [g EXCEPT !.log = Append(@, Sent(g, s))] IN
                  \/ s.port = 0 /\ Set(t, Caught(g, NotConnectedError, "send"))
                  \/ s.port # 0 /\ \E e \in E : Set(t, Caught(g, e, "send"))
                  \/ /\ s.port # 0
                     /\ h.direction = TRANSMISSION_SEND
                     /\ Set(t, [h EXCEPT !.pc = "tx_finish"])
                  \/ /\ s.port # 0
                     /\ h.direction = TRANSMISSION_SEND_AND_RECV
                     /\ \/ \E d \in D :
                             Set(t, [h EXCEPT !.pc = "tx_finish", !.nrecv = @ + 1,
                                              !.ans_packet = Slice(d, 0, RECV_BUFSIZE)])
                        \/ \E e \in E :
                             Set(t, Caught([h EXCEPT !.nrecv = @ + 1], e, "recv"))
    /\ UNCHANGED <<lock, errno>>

\* _transmit, from the answer bytes to the return: ans is
\* FS100AnsPacket(ans_packet) when a reply is expected, else None; the socket
\* is closed if this call opened it; the lock is released
tx_finish(t) ==
    /\ me(t).pc = "tx_finish"
    /\ IF me(t).direction = TRANSMISSION_SEND_AND_RECV /\ ~AnsDecodable(me(t).ans_packet)
       THEN Raise(t, "struct.error") /\ UNCHANGED <<lock, sock>>
       ELSE LET a == IF me(t).direction = TRANSMISSION_SEND_AND_RECV
                     THEN FS100AnsPacket(me(t).ans_packet) ELSE NoAns IN
            /\ sock' = IF me(t).to_disc
                       THEN [sock EXCEPT ![me(t).inst] = SockAfterDisconnect(me(t).inst)]
                       ELSE sock
            /\ lock' = Released(t)
            /\ Set(t, [me(t) EXCEPT !.pc = me(t).txret, !.ret = a,
                                    !.alog = IF a.none THEN @ ELSE Append(@, a)])
    /\ UNCHANGED errno

----------------------------------------------------------------------------
(* Robot-control commands: one request, one answer *)

\* struct.pack('<I', n)
PackI(n) == <<n % 256, (n \div 256) % 256, (n \div 65536) % 256, (n \div 16777216) % 256>>

\* a thread enters a public operation of instance i
Begin(t, op, i) ==
    [Frame0 EXCEPT !.op = op, !.inst = i, !.ncalls = me(t).ncalls + 1,
                   !.held0 = HoldCount(t), !.errno0 = errno[i], !.sock0 = sock[i]]
MayCall(t) == me(t).pc = "idle"

\* switch_power(power_type, switch): command 0x83, service 0x10
switch_power(t, i) ==
    /\ MayCall(t)
    /\ LET req == FS100ReqPacket(HEADER_DIVISION_ROBOT_CONTROL, 0, 131,
                                 POWER_TYPE_SERVO, 1, 16,
                                 Payload(PackI(POWER_SWITCH_ON)), 4) IN
       Set(t, CallTransmit(Begin(t, "switch_power", i), ReqToBytes(req),
                           TRANSMISSION_SEND_AND_RECV, "cmd_errno"))
    /\ UNCHANGED <<lock, sock, errno>>

\* select_job(job_name, line_num=0): command 0x87, service 0x02; name is the
\* encoded job name (after the '.JBI' suffix is cut)
select_job(t, i, name) ==
    /\ MayCall(t)
    /\ IF Len(name) > 32
       THEN Set(t, [Begin(t, "select_job", i) EXCEPT
                        !.pc = "done", !.result = Raised("ValueError")])
       ELSE LET data == name \o Zeros(32 - Len(name)) \o PackI(0)
                req == FS100ReqPacket(HEADER_DIVISION_ROBOT_CONTROL, 0, 135,
                                      1, 0, 2, Payload(data), Len(data)) IN
            Set(t, CallTransmit(Begin(t, "select_job", i), ReqToBytes(req),
                                TRANSMISSION_SEND_AND_RECV, "cmd_errno"))
    /\ UNCHANGED <<lock, sock, errno>>

\* show_text_on_pendant(text): command 0x85, instance 1, attribute 1,
\* service 0x10; text is the encoded text, padded to 32 bytes
show_text_on_pendant(t, i, text) ==
    /\ MayCall(t)
    /\ IF Len(text) > 30
       THEN Set(t, [Begin(t, "show_text_on_pendant", i) EXCEPT
                        !.pc = "done", !.result = Raised("ValueError")])
       ELSE LET data == text \o Zeros(32 - Len(text))
                req == FS100ReqPacket(HEADER_DIVISION_ROBOT_CONTROL, 0, 133,
                                      1, 1, 16, Payload(data), Len(data)) IN
            Set(t, CallTransmit(Begin(t, "show_text_on_pendant", i), ReqToBytes(req),
                                TRANSMISSION_SEND_AND_RECV, "cmd_errno"))
    /\ UNCHANGED <<lock, sock, errno>>

\* A faulty variant of cmd_errno: the request is sent again after a failure.
cmd_errno_retry(t) ==
    /\ me(t).pc = "cmd_errno"
    /\ errno' = [errno EXCEPT ![me(t).inst] = me(t).ret.added_status]
    /\ IF me(t).ret.status # ERROR_SUCCESS /\ me(t).nsend < 2
       THEN Set(t, CallTransmit([me(t) EXCEPT !.ans = me(t).ret], me(t).packet,
                                TRANSMISSION_SEND_AND_RECV, "cmd_errno"))
       ELSE Set(t, [me(t) EXCEPT !.pc = "cmd_return", !.ans = me(t).ret])
    /\ UNCHANGED <<lock, sock>>
\* ans = self._transmit(req.to_bytes()); self.errno = ans.added_status
cmd_errno(t) ==
    /\ me(t).pc = "cmd_errno"
    /\ errno' = [errno EXCEPT ![me(t).inst] = me(t).ret.added_status]
    /\ Set(t, [me(t) EXCEPT !.pc = "cmd_return", !.ans = me(t).ret])
    /\ UNCHANGED <<lock, sock>>

\* return ans.status
cmd_return(t) ==
    /\ me(t).pc = "cmd_return"
    /\ Set(t, [me(t) EXCEPT !.pc = "done", !.result = Returned(me(t).ans.status)])
    /\ UNCHANGED <<lock, sock, errno>>

\* the caller has the result (a status or an exception) and goes on
Return(t) ==
    /\ me(t).pc = "done"
    /\ Set(t, [Frame0 EXCEPT !.ncalls = me(t).ncalls])
    /\ UNCHANGED <<lock, sock, errno>>

----------------------------------------------------------------------------
(* File-control operations *)

\* A faulty variant of FileOpen: the file operation does not take the lock.
FileOpenNoLock(t, f, req, to) ==
    /\ \E o \in ConnectOutcomes :
         /\ lock' = lock
         /\ sock' = [sock EXCEPT ![f.inst] = SockAfterConnect(f.inst, UDP_PORT_FILE_CONTROL, o)]
         /\ IF ConnectRaises(f.inst, o)
            THEN Set(t, [f EXCEPT !.pc = "done", !.result = Raised("OSError")])
            ELSE Set(t, CallTransmit(f, ReqToBytes(req), TRANSMISSION_SEND_AND_RECV, to))
    /\ UNCHANGED errno
\* self.transmission_lock.acquire(); self._connect(FS100.UDP_PORT_FILE_CONTROL)
\* and then the first request of the operation, continued at `to`; f is the
\* frame of the thread at that point
FileOpen(t, f, req, to) ==
    /\ CanAcquire(t)
    /\ \E o \in ConnectOutcomes :
         /\ lock' = Acquired(t)
         /\ sock' = [sock EXCEPT ![f.inst] = SockAfterConnect(f.inst, UDP_PORT_FILE_CONTROL, o)]
         /\ IF ConnectRaises(f.inst, o)
            THEN Set(t, [f EXCEPT !.pc = "done", !.result = Raised("OSError")])
            ELSE Set(t, CallTransmit(f, ReqToBytes(req), TRANSMISSION_SEND_AND_RECV, to))
    /\ UNCHANGED errno

\* self._disconnect(); self.transmission_lock.release(); return ans.status
FileClose(t, f) ==
    /\ sock' = [sock EXCEPT ![f.inst] = SockAfterDisconnect(f.inst)]
    /\ lock' = Released(t)
    /\ Set(t, [f EXCEPT !.pc = "done", !.result = Returned(f.ans.status)])

\* delete_file(file_name): service 0x09
delete_file(t, i, file_name) ==
    /\ MayCall(t)
    /\ FileOpen(t, [Begin(t, "delete_file", i) EXCEPT !.arg = file_name],
                FS100ReqPacket(HEADER_DIVISION_FILE_CONTROL, 0, 0, 0, 0, 9,
                               Payload(file_name), Len(file_name)), "df_fin")

\* self.errno = ans.added_status; disconnect; release; return ans.status
df_fin(t) ==
    /\ me(t).pc = "df_fin"
    /\ errno' = [errno EXCEPT ![me(t).inst] = me(t).ret.added_status]
    /\ FileClose(t, [me(t) EXCEPT !.ans = me(t).ret])

\* bytes.decode('utf-8') and str.encode('utf-8') for text of code points
\* below 0x800: a code point below 0x80 is one byte, the others are a lead
\* byte 0xC2..0xDF and a continuation byte 0x80..0xBF. Text is the sequence
\* of its code points; the bytes of the model are those of such text, or
\* bytes that cannot occur in UTF-8 (0xFF, a stray continuation byte, a lead
\* byte without its continuation byte), on which decode raises
\* UnicodeDecodeError
RECURSIVE ValidUtf8(_)
ValidUtf8(b) ==
    IF b = <<>> THEN TRUE
    ELSE IF b[1] < 128 THEN ValidUtf8(Tail(b))
    ELSE /\ b[1] \in 194..223
         /\ Len(b) >= 2
         /\ b[2] \in 128..191
         /\ ValidUtf8(Tail(Tail(b)))
RECURSIVE Utf8Decode(_)
Utf8Decode(b) ==
    IF b = <<>> THEN <<>>
    ELSE IF b[1] < 128 THEN <<b[1]>> \o Utf8Decode(Tail(b))
    ELSE <<(b[1] - 192) * 64 + (b[2] - 128)>> \o Utf8Decode(Tail(Tail(b)))
RECURSIVE Utf8Encode(_)
Utf8Encode(s) ==
    IF s = <<>> THEN <<>>
    ELSE (IF s[1] < 128 THEN <<s[1]>> ELSE <<192 + (s[1] \div 64), 128 + (s[1] % 64)>>)
             \o Utf8Encode(Tail(s))

\* str.splitlines() for text with the line ends '\n', '\r' and '\r\n'
RECURSIVE SplitFrom(_, _, _, _)
SplitFrom(s, k, cur, acc) ==
    IF k > Len(s) THEN (IF cur = <<>> THEN acc ELSE Append(acc, cur))
    ELSE IF s[k] = 10 THEN SplitFrom(s, k + 1, <<>>, Append(acc, cur))
    ELSE IF s[k] = 13
         THEN SplitFrom(s, IF k < Len(s) /\ s[k + 1] = 10 THEN k + 2 ELSE k + 1,
                        <<>>, Append(acc, cur))
    ELSE SplitFrom(s, k + 1, Append(cur, s[k]), acc)
SplitLines(s) == SplitFrom(s, 1, <<>>, <<>>)

\* A faulty variant of AckOf: the block number of the answer is not echoed.
AckOfZero(service, block_no) ==
    [FS100ReqPacket(HEADER_DIVISION_FILE_CONTROL, 0, 0, 0, 0, service, Payload(<<>>), 0)
        EXCEPT !.ack = HEADER_ACK_NOT_REQUEST]
\* the acknowledgment built in the loops of get_file_list and recv_file:
\* req.ack = HEADER_ACK_NOT_REQUEST; req.block_no = ans.block_no
AckOf(service, block_no) ==
    [FS100ReqPacket(HEADER_DIVISION_FILE_CONTROL, 0, 0, 0, 0, service, Payload(<<>>), 0)
        EXCEPT !.ack = HEADER_ACK_NOT_REQUEST, !.block_no = block_no]

\* get_file_list(extension, list): service 0x32
get_file_list(t, i, extension, list) ==
    /\ MayCall(t)
    /\ FileOpen(t, [Begin(t, "get_file_list", i) EXCEPT !.arg = extension, !.list = list],
                FS100ReqPacket(HEADER_DIVISION_FILE_CONTROL, 0, 0, 0, 0, 50,
                               Payload(extension), Len(extension)), "gl_loop")

\* the while loop of get_file_list, from an answer to the next _transmit
gl_loop(t) ==
    /\ me(t).pc = "gl_loop"
    /\ LET ans == me(t).ret
           f == [me(t) EXCEPT !.ans = ans] IN
       IF ans.status = ERROR_SUCCESS
       THEN IF ~ValidUtf8(ans.data)
            THEN Raise(t, "UnicodeDecodeError")
            ELSE LET g == [f EXCEPT !.raw = @ \o ans.data]
                     req == AckOf(50, ans.block_no) IN
                 IF IsTerminal(ans.block_no)
                 THEN Set(t, CallTransmit(g, ReqToBytes(req), TRANSMISSION_SEND, "gl_fin"))
                 ELSE Set(t, CallTransmit(g, ReqToBytes(req),
                                          TRANSMISSION_SEND_AND_RECV, "gl_loop"))
       ELSE Set(t, [f EXCEPT !.pc = "gl_fin"])
    /\ UNCHANGED <<lock, sock, errno>>

\* A faulty variant of gl_fin: the list is extended whatever the status is.
gl_fin_always_extend(t) ==
    /\ me(t).pc = "gl_fin"
    /\ errno' = [errno EXCEPT ![me(t).inst] = me(t).ans.added_status]
    /\ FileClose(t, [me(t) EXCEPT !.list = @ \o SplitLines(me(t).raw)])
\* after the loop of get_file_list
gl_fin(t) ==
    /\ me(t).pc = "gl_fin"
    /\ errno' = [errno EXCEPT ![me(t).inst] = me(t).ans.added_status]
    /\ FileClose(t, IF me(t).ans.status # ERROR_SUCCESS THEN me(t)
                    ELSE [me(t) EXCEPT !.list = @ \o SplitLines(me(t).raw)])

\* A faulty variant of recv_file: the lock is taken before the directory is
\* looked for.
recv_file_locks_first(t, i, filename, isdir) ==
    /\ MayCall(t)
    /\ LET f == [Begin(t, "recv_file", i) EXCEPT !.arg = filename] IN
       IF ~isdir
       THEN /\ CanAcquire(t)
            /\ lock' = Acquired(t)
            /\ errno' = [errno EXCEPT ![i] = ENOENT_ADDED]
            /\ Set(t, [f EXCEPT !.pc = "done",
                                !.result = Returned(ERROR_NO_SUCH_FILE_OR_DIRECTORY)])
            /\ UNCHANGED sock
       ELSE FileOpen(t, f, FS100ReqPacket(HEADER_DIVISION_FILE_CONTROL, 0, 0, 0, 0, 22,
                                          Payload(filename), Len(filename)), "rf_loop")
\* recv_file(filename, local_dir): service 0x16; isdir is os.path.isdir(local_dir)
recv_file(t, i, filename, isdir) ==
    /\ MayCall(t)
    /\ LET f == [Begin(t, "recv_file", i) EXCEPT !.arg = filename] IN
       IF ~isdir
       THEN /\ errno' = [errno EXCEPT ![i] = ENOENT_ADDED]
            /\ Set(t, [f EXCEPT !.pc = "done",
                                !.result = Returned(ERROR_NO_SUCH_FILE_OR_DIRECTORY)])
            /\ UNCHANGED <<lock, sock>>
       ELSE FileOpen(t, f, FS100ReqPacket(HEADER_DIVISION_FILE_CONTROL, 0, 0, 0, 0, 22,
                                          Payload(filename), Len(filename)), "rf_loop")

\* A faulty variant of rf_loop: a failed answer is acknowledged like a
\* successful one.
rf_loop_goes_on(t) ==
    /\ me(t).pc = "rf_loop"
    /\ LET ans == me(t).ret
           f == [me(t) EXCEPT !.ans = ans]
           g == [f EXCEPT !.raw = @ \o ans.data]
           req == AckOf(22, ans.block_no) IN
       IF IsTerminal(ans.block_no)
       THEN Set(t, CallTransmit(g, ReqToBytes(req), TRANSMISSION_SEND, "rf_fin"))
       ELSE IF ans.status = ERROR_SUCCESS \/ me(t).nsend < 2
       THEN Set(t, CallTransmit(g, ReqToBytes(req), TRANSMISSION_SEND_AND_RECV, "rf_loop"))
       ELSE Set(t, [f EXCEPT !.pc = "rf_fin"])
    /\ UNCHANGED <<lock, sock, errno>>
\* A faulty variant of rf_loop: the payload is put before the accumulated
\* bytes instead of after them.
rf_loop_prepend(t) ==
    /\ me(t).pc = "rf_loop"
    /\ LET ans == me(t).ret
           f == [me(t) EXCEPT !.ans = ans] IN
       IF ans.status = ERROR_SUCCESS
       THEN LET g == [f EXCEPT !.raw = ans.data \o @]
                req == AckOf(22, ans.block_no) IN
            IF IsTerminal(ans.block_no)
            THEN Set(t, CallTransmit(g, ReqToBytes(req), TRANSMISSION_SEND, "rf_fin"))
            ELSE Set(t, CallTransmit(g, ReqToBytes(req),
                                     TRANSMISSION_SEND_AND_RECV, "rf_loop"))
       ELSE Set(t, [f EXCEPT !.pc = "rf_fin"])
    /\ UNCHANGED <<lock, sock, errno>>
\* the while loop of recv_file, from an answer to the next _transmit
rf_loop(t) ==
    /\ me(t).pc = "rf_loop"
    /\ LET ans == me(t).ret
           f == [me(t) EXCEPT !.ans = ans] IN
       IF ans.status = ERROR_SUCCESS
       THEN LET g == [f EXCEPT !.raw = @ \o ans.data]
                req == AckOf(22, ans.block_no) IN
            IF IsTerminal(ans.block_no)
            THEN Set(t, CallTransmit(g, ReqToBytes(req), TRANSMISSION_SEND, "rf_fin"))
            ELSE Set(t, CallTransmit(g, ReqToBytes(req),
                                     TRANSMISSION_SEND_AND_RECV, "rf_loop"))
       ELSE Set(t, [f EXCEPT !.pc = "rf_fin"])
    /\ UNCHANGED <<lock, sock, errno>>

\* after the loop of recv_file; open(..., 'wb') may raise OSError, and so may
\* write() after open() has created the file
rf_fin(t) ==
    /\ me(t).pc = "rf_fin"
    /\ errno' = [errno EXCEPT ![me(t).inst] = me(t).ans.added_status]
    /\ IF me(t).ans.status # ERROR_SUCCESS
       THEN FileClose(t, me(t))
       ELSE \/ FileClose(t, [me(t) EXCEPT !.file = <<me(t).raw>>])
            \/ Raise(t, "OSError") /\ UNCHANGED <<lock, sock>>
            \/ /\ Set(t, [me(t) EXCEPT !.file = <<Zeros(0)>>, !.pc = "done",
                                       !.result = Raised("OSError")])
               /\ UNCHANGED <<lock, sock>>

\* ntpath.basename for paths of letters, '/' and '\'
RECURSIVE Basename(_)
Basename(path) ==
    IF \E k \in 1..Len(path) : path[k] \in {47, 92}
    THEN Basename(Tail(path))
    ELSE path

\* A faulty variant of ReachesEnd: > in place of >=.
ReachesEndStrict(b, len) == b.top \/ CHUNK_SIZE * b.n > len
\* CHUNK_SIZE * block_no >= len(context), block_no being a Python integer
ReachesEnd(b, len) == b.top \/ CHUNK_SIZE * b.n >= len
\* A faulty variant of ChunkStart: the slice starts at block_no * CHUNK_SIZE.
ChunkStartAfter(b, len) == IF b.top THEN len ELSE Min(b.n * CHUNK_SIZE, len)
\* context[(block_no - 1) * CHUNK_SIZE:] and
\* context[(block_no - 1) * CHUNK_SIZE:block_no * CHUNK_SIZE]
ChunkStart(b, len) == IF b.top THEN len ELSE Min((b.n - 1) * CHUNK_SIZE, len)
LastChunk(b, len) == Chunk(ChunkStart(b, len), len)
FullChunk(b, len) ==
    Chunk(ChunkStart(b, len), Max(ChunkStart(b, len), Min(b.n * CHUNK_SIZE, len)))

\* send_file(filename): service 0x15.  local is <<>> when the file does not
\* exist, else <<n>> for a file of n bytes
send_file(t, i, filename, local) ==
    /\ MayCall(t)
    /\ LET f == [Begin(t, "send_file", i) EXCEPT !.arg = filename] IN
       IF local = <<>>
       THEN /\ errno' = [errno EXCEPT ![i] = ENOENT_ADDED]
            /\ Set(t, [f EXCEPT !.pc = "done",
                                !.result = Returned(ERROR_NO_SUCH_FILE_OR_DIRECTORY)])
            /\ UNCHANGED <<lock, sock>>
       ELSE IF local[1] = 0
       THEN /\ Set(t, [f EXCEPT !.pc = "done", !.result = Raised("ValueError")])
            /\ UNCHANGED <<lock, sock, errno>>
       ELSE LET data == Basename(filename) IN
            FileOpen(t, [f EXCEPT !.context = local[1], !.block_no = Blk(0, FALSE)],
                     FS100ReqPacket(HEADER_DIVISION_FILE_CONTROL, 0, 0, 0, 0, 21,
                                    Payload(data), Len(data)), "sf_loop")

\* A faulty variant of NextChunk: the last slice without the terminal bit.
NextChunkNoFlag(b, len) ==
    LET b1 == BlkInc(b) IN
    IF ReachesEnd(b1, len)
    THEN [block_no |-> b1, data |-> LastChunk(b1, len)]
    ELSE [block_no |-> b1, data |-> FullChunk(b1, len)]
\* block_no += 1, the slice of context for that block and the terminal bit
\* when the slice reaches the end of context
NextChunk(b, len) ==
    LET b1 == BlkInc(b) IN
    IF ReachesEnd(b1, len)
    THEN [block_no |-> OrTerminal(b1), data |-> LastChunk(b1, len)]
    ELSE [block_no |-> b1, data |-> FullChunk(b1, len)]

\* A faulty variant of sf_loop: a send-only acknowledgment follows the
\* answer with the terminal bit, as in recv_file.
sf_loop_final_ack(t) ==
    /\ me(t).pc = "sf_loop"
    /\ LET ans == me(t).ret
           f == [me(t) EXCEPT !.ans = ans] IN
       IF ans.status = ERROR_SUCCESS
       THEN LET c == NextChunk(f.block_no, f.context)
                req == [FS100ReqPacket(HEADER_DIVISION_FILE_CONTROL, 0, 0, 0, 0, 21,
                                       c.data, PayloadLen(c.data))
                           EXCEPT !.ack = HEADER_ACK_NOT_REQUEST,
                                  !.block_no = c.block_no] IN
            IF IsTerminal(ans.block_no)
            THEN Set(t, CallTransmit(f, ReqToBytes(AckOf(21, ans.block_no)),
                                     TRANSMISSION_SEND, "sf_fin"))
            ELSE Set(t, CallTransmit([f EXCEPT !.block_no = c.block_no], ReqToBytes(req),
                                     TRANSMISSION_SEND_AND_RECV, "sf_loop"))
       ELSE Set(t, [f EXCEPT !.pc = "sf_fin"])
    /\ UNCHANGED <<lock, sock, errno>>
\* the while loop of send_file, from an answer to the next _transmit
sf_loop(t) ==
    /\ me(t).pc = "sf_loop"
    /\ LET ans == me(t).ret
           f == [me(t) EXCEPT !.ans = ans] IN
       IF ans.status = ERROR_SUCCESS /\ ~IsTerminal(ans.block_no)
       THEN LET c == NextChunk(f.block_no, f.context)
                req == [FS100ReqPacket(HEADER_DIVISION_FILE_CONTROL, 0, 0, 0, 0, 21,
                                       c.data, PayloadLen(c.data))
                           EXCEPT !.ack = HEADER_ACK_NOT_REQUEST,
                                  !.block_no = c.block_no] IN
            Set(t, CallTransmit([f EXCEPT !.block_no = c.block_no], ReqToBytes(req),
                                TRANSMISSION_SEND_AND_RECV, "sf_loop"))
       ELSE Set(t, [f EXCEPT !.pc = "sf_fin"])
    /\ UNCHANGED <<lock, sock, errno>>

\* after the loop of send_file
sf_fin(t) ==
    /\ me(t).pc = "sf_fin"
    /\ errno' = [errno EXCEPT ![me(t).inst] = me(t).ans.added_status]
    /\ FileClose(t, me(t))

----------------------------------------------------------------------------
(* Robot variables *)

PositionTypes == {VarType_ROBOT_POSITION, VarType_BASE_POSITION, VarType_EXTERNAL_AXIS}

\* FS100.Variable.__init__(type, num, val=None): val is <<>> for None and
\* <<v>> for the value v
Variable(type, num, val) == [type |-> type, num |-> num, val |-> val]

\* A faulty variant of UnpackSH: the two bytes are read as unsigned.
UnpackSHUnsigned(p, i) == UnpackH(p, i)
\* struct.unpack of '<h', '<I' and '<i' at offset i (values of '<I' up to
\* 2^31 - 1)
UnpackSH(p, i) == IF UnpackH(p, i) >= 32768 THEN UnpackH(p, i) - 65536 ELSE UnpackH(p, i)
UnpackUI(p, i) == p[i + 1] + 256 * p[i + 2] + 65536 * p[i + 3] + 16777216 * p[i + 4]
UnpackSI(p, i) ==
    p[i + 1] + 256 * p[i + 2] + 65536 * p[i + 3]
        + 16777216 * (IF p[i + 4] >= 128 THEN p[i + 4] - 256 ELSE p[i + 4])

\* struct.unpack and struct.pack of '<f': a float is kept as the sign, the
\* biased exponent and the fraction of its IEEE 754 binary32 form, which
\* name one number each, NaN apart. A Python float is a binary64 number: low
\* is the 29 bits its fraction has beyond those of binary32, all 0 for a
\* number binary32 holds (the exponent is within the range of binary32).
\* struct.pack rounds to the nearest binary32 number, ties to the even one,
\* and raises OverflowError when that is beyond the largest one
UnpackF(p, i) ==
    [sign |-> p[i + 4] \div 128,
     exp |-> (p[i + 4] % 128) * 2 + (p[i + 3] \div 128),
     frac |-> (p[i + 3] % 128) * 65536 + p[i + 2] * 256 + p[i + 1],
     low |-> 0]
HalfUlp == 268435456
RoundF(x) ==
    LET n == x.exp * 8388608 + x.frac
        up == x.low > HalfUlp \/ (x.low = HalfUlp /\ x.frac % 2 = 1)
        m == IF up THEN n + 1 ELSE n IN
    [sign |-> x.sign, exp |-> m \div 8388608, frac |-> m % 8388608, low |-> 0]
FloatTooLarge(x) == x.exp < 255 /\ RoundF(x).exp = 255
PackF(x) ==
    LET r == RoundF(x) IN
    <<r.frac % 256, (r.frac \div 256) % 256, (r.exp % 2) * 128 + (r.frac \div 65536),
      r.sign * 128 + (r.exp \div 2)>>
\* struct.pack of '<h' and '<i': two's complement
PackSH(n) == PackH((n + 65536) % 65536)
PackSI(n) ==
    IF n >= 0 THEN PackI(n)
    ELSE LET u == (n + 2147483647) + 1 IN
         <<u % 256, (u \div 256) % 256, (u \div 65536) % 256, (u \div 16777216) + 128>>

\* Variable.set_val for the types of one value: the bytes the format needs
\* and the value read; a STRING is the text decoded from all the bytes
ValSize(type) ==
    CASE type \in {VarType_IO, VarType_BYTE} -> 1
      [] type \in {VarType_REGISTER, VarType_INTEGER} -> 2
      [] type \in {VarType_DOUBLE, VarType_REAL} -> 4
      [] OTHER -> 0
ValOf(type, raw) ==
    CASE type \in {VarType_IO, VarType_BYTE} -> UnpackB(raw, 0)
      [] type = VarType_REGISTER -> UnpackH(raw, 0)
      [] type = VarType_INTEGER -> UnpackSH(raw, 0)
      [] type = VarType_DOUBLE -> UnpackSI(raw, 0)
      [] type = VarType_REAL -> UnpackF(raw, 0)
      [] type = VarType_STRING -> [text |-> Utf8Decode(raw)]

\* Variable.set_val for the position types: the keys of val in the order
\* they are assigned, the end of the bytes each one needs, and its value
PositionKeys(type) ==
    IF type = VarType_ROBOT_POSITION
    THEN <<"data_type", "form", "tool_no", "user_coor_no", "extended_form", "pos">>
    ELSE <<"data_type", "1st_axis", "2nd_axis", "3rd_axis", "4th_axis", "5th_axis",
           "6th_axis", "7th_axis">>
KeyEnd(type, k) == IF type = VarType_ROBOT_POSITION /\ k = 6 THEN 48 ELSE 4 * k
KeyVal(type, k, raw) ==
    IF type = VarType_ROBOT_POSITION
    THEN IF k = 6 THEN [j \in 1..7 |-> UnpackSI(raw, 20 + 4 * (j - 1))]
         ELSE UnpackUI(raw, 4 * (k - 1))
    ELSE IF k = 1 THEN UnpackUI(raw, 0) ELSE UnpackSI(raw, 4 * (k - 1))
\* the keys assigned before the first struct.unpack that raises
AssignedKeys(type, raw) ==
    {k \in 1..Len(PositionKeys(type)) : KeyEnd(type, k) <= Len(raw)}
PositionVal(var, raw) ==
    LET old == IF var.val = <<>> THEN <<>> ELSE var.val[1]
        keys == PositionKeys(var.type)
        new == {keys[k] : k \in AssignedKeys(var.type, raw)}
        at(n) == CHOOSE k \in 1..Len(keys) : keys[k] = n IN
    [n \in (DOMAIN old) \cup new |->
        IF n \in new THEN KeyVal(var.type, at(n), raw) ELSE old[n]]

\* Variable.set_val(raw_bytes): the variable afterwards and the exception
\* raised, "" when none is
set_val(var, raw) ==
    IF var.type \in PositionTypes
    THEN [var |-> [var EXCEPT !.val = <<PositionVal(var, raw)>>],
          exc |-> IF AssignedKeys(var.type, raw) = 1..Len(PositionKeys(var.type))
                  THEN "" ELSE "struct.error"]
    ELSE IF var.type = VarType_STRING
    THEN IF ValidUtf8(raw)
         THEN [var |-> [var EXCEPT !.val = <<ValOf(var.type, raw)>>], exc |-> ""]
         ELSE [var |-> var, exc |-> "UnicodeDecodeError"]
    ELSE IF CanUnpack(raw, 0, ValSize(var.type))
         THEN [var |-> [var EXCEPT !.val = <<ValOf(var.type, raw)>>], exc |-> ""]
         ELSE [var |-> var, exc |-> "struct.error"]

\* Variable.val_to_bytes(): the bytes returned and the exception raised, ""
\* when none is. struct.pack raises struct.error for a value outside the
\* range of its format, and the position types raise KeyError for a missing
\* key; values of '<I' are kept up to 2^31 - 1
InRange(type, v) ==
    CASE type \in {VarType_IO, VarType_BYTE} -> v \in 0..255
      [] type = VarType_REGISTER -> v \in 0..65535
      [] type = VarType_INTEGER -> v \in -32768..32767
      [] type = VarType_REAL -> ~FloatTooLarge(v)
      [] OTHER -> TRUE
PackVal(type, v) ==
    CASE type \in {VarType_IO, VarType_BYTE} -> <<v>>
      [] type = VarType_REGISTER -> PackH(v)
      [] type = VarType_INTEGER -> PackSH(v)
      [] type = VarType_DOUBLE -> PackSI(v)
      [] type = VarType_REAL -> PackF(v)
      [] type = VarType_STRING -> Utf8Encode(v.text)
RECURSIVE PackAll(_)
PackAll(vs) == IF vs = <<>> THEN <<>> ELSE PackSI(vs[1]) \o PackAll(Tail(vs))
PackPosition(type, v) ==
    IF type = VarType_ROBOT_POSITION
    THEN PackI(v["data_type"]) \o PackI(v["form"]) \o PackI(v["tool_no"])
             \o PackI(v["user_coor_no"]) \o PackI(v["extended_form"])
             \o PackAll(v["pos"])
    ELSE PackI(v["data_type"])
             \o PackAll([k \in 1..7 |-> v[PositionKeys(type)[k + 1]]])
val_to_bytes(var) ==
    IF var.type \in PositionTypes
    THEN IF \A k \in 1..Len(PositionKeys(var.type)) :
                PositionKeys(var.type)[k] \in DOMAIN var.val[1]
         THEN [bytes |-> PackPosition(var.type, var.val[1]), exc |-> ""]
         ELSE [bytes |-> <<>>, exc |-> "KeyError"]
    ELSE IF InRange(var.type, var.val[1])
         THEN [bytes |-> PackVal(var.type, var.val[1]), exc |-> ""]
         ELSE [bytes |-> <<>>,
               exc |-> IF var.type = VarType_REAL THEN "OverflowError" ELSE "struct.error"]

\* the request of write_variable(var): service 0x10 with attribute 1, for a
\* position service 0x02 with attribute 0 (all attributes); the data are
\* var.val_to_bytes()
WriteVariableReq(var) ==
    LET data == val_to_bytes(var).bytes IN
    FS100ReqPacket(HEADER_DIVISION_ROBOT_CONTROL, 0, var.type, var.num,
                   IF var.type \in PositionTypes THEN 0 ELSE 1,
                   IF var.type \in PositionTypes THEN 2 ELSE 16,
                   Payload(data), Len(data))

\* a | b for the statuses, which are bytes
RECURSIVE BitOr(_, _)
BitOr(a, b) ==
    IF a = 0 THEN b
    ELSE IF b = 0 THEN a
    ELSE 2 * BitOr(a \div 2, b \div 2) + (IF a % 2 = 1 \/ b % 2 = 1 THEN 1 ELSE 0)

\* A faulty variant of SubReturn: read_variables gives up the remaining runs
\* after a failed sub-request.
SubReturnStop(f, status) ==
    IF f.op = "read_variables"
    THEN [f EXCEPT !.rv_ret = BitOr(@, status), !.pc = "rvs_loop", !.ans = f.ret,
                   !.sub_ret = <<status>>,
                   !.keys_lists = IF status = ERROR_SUCCESS THEN @ ELSE <<>>,
                   !.pending = IF status = ERROR_SUCCESS THEN @ ELSE <<>>]
    ELSE [f EXCEPT !.pc = "done", !.result = Returned(status), !.ans = f.ret]
\* A faulty variant of SubReturn: read_variables keeps the last status only.
SubReturnLast(f, status) ==
    IF f.op = "read_variables"
    THEN [f EXCEPT !.rv_ret = status, !.pc = "rvs_loop", !.ans = f.ret,
                   !.sub_ret = <<status>>]
    ELSE [f EXCEPT !.pc = "done", !.result = Returned(status), !.ans = f.ret]
\* the return of read_variable or _read_consecutive_variables with status:
\* to the caller of the operation, or into `ret |= ...` of read_variables
SubReturn(f, status) ==
    IF f.op = "read_variables"
    THEN [f EXCEPT !.rv_ret = BitOr(@, status), !.pc = "rvs_loop", !.ans = f.ret,
                   !.sub_ret = <<status>>]
    ELSE [f EXCEPT !.pc = "done", !.result = Returned(status), !.ans = f.ret]

\* the request of read_variable(var): service 0x0e with attribute 1, for a
\* position service 0x01 with attribute 0 (all attributes)
ReadVariableReq(var) ==
    FS100ReqPacket(HEADER_DIVISION_ROBOT_CONTROL, 0, var.type, var.num,
                   IF var.type \in PositionTypes THEN 0 ELSE 1,
                   IF var.type \in PositionTypes THEN 1 ELSE 14,
                   Payload(<<>>), 0)

\* read_variable(var), called by a thread
read_variable(t, i, var) ==
    /\ MayCall(t)
    /\ Set(t, CallTransmit([Begin(t, "read_variable", i) EXCEPT
                                !.vars = <<var>>, !.cur = <<1>>],
                           ReqToBytes(ReadVariableReq(var)),
                           TRANSMISSION_SEND_AND_RECV, "rv_fin"))
    /\ UNCHANGED <<lock, sock, errno>>

\* A faulty variant of rv_fin: a failed read clears the val of the variable.
rv_fin_clears_on_failure(t) ==
    /\ me(t).pc = "rv_fin"
    /\ errno' = [errno EXCEPT ![me(t).inst] = me(t).ret.added_status]
    /\ LET k == me(t).cur[1]
           o == set_val(me(t).vars[k], me(t).ret.data)
           f == [me(t) EXCEPT !.vars[k] = o.var] IN
       IF me(t).ret.status # ERROR_SUCCESS
       THEN Set(t, SubReturn([me(t) EXCEPT !.vars[k].val = <<>>], me(t).ret.status))
       ELSE IF o.exc # ""
       THEN Set(t, [f EXCEPT !.pc = "done", !.result = Raised(o.exc), !.ans = f.ret])
       ELSE Set(t, SubReturn(f, me(t).ret.status))
    /\ UNCHANGED <<lock, sock>>
\* read_variable after _transmit: self.errno = ans.added_status;
\* var.set_val(ans.data) on success; return ans.status
rv_fin(t) ==
    /\ me(t).pc = "rv_fin"
    /\ errno' = [errno EXCEPT ![me(t).inst] = me(t).ret.added_status]
    /\ LET k == me(t).cur[1]
           o == set_val(me(t).vars[k], me(t).ret.data)
           f == [me(t) EXCEPT !.vars[k] = o.var] IN
       IF me(t).ret.status # ERROR_SUCCESS
       THEN Set(t, SubReturn(me(t), me(t).ret.status))
       ELSE IF o.exc # ""
       THEN Set(t, [f EXCEPT !.pc = "done", !.result = Raised(o.exc), !.ans = f.ret])
       ELSE Set(t, SubReturn(f, me(t).ret.status))
    /\ UNCHANGED <<lock, sock>>

\* sorted(list)
RECURSIVE Insert(_, _)
Insert(v, s) ==
    IF s = <<>> THEN <<v>>
    ELSE IF v <= Head(s) THEN <<v>> \o s
    ELSE <<Head(s)>> \o Insert(v, Tail(s))
RECURSIVE Sorted(_)
Sorted(list) == IF list = <<>> THEN <<>> ELSE Insert(Head(list), Sorted(Tail(list)))

\* A faulty variant of GroupFrom: the run in progress when the numbers are
\* exhausted is not yielded.
RECURSIVE GroupFromNoTail(_, _, _)
GroupFromNoTail(list2, sublist, out) ==
    IF list2 = <<>>
    THEN out
    ELSE LET v == Head(list2) IN
         IF sublist = <<>> \/ sublist[Len(sublist)] \in {v, v - 1}
         THEN GroupFromNoTail(Tail(list2), Append(sublist, v), out)
         ELSE GroupFromNoTail(Tail(list2), <<v>>, Append(out, sublist))
\* _group_nums(list): the sorted numbers cut into the runs in which each
\* number is the one before it or the one before it plus one
RECURSIVE GroupFrom(_, _, _)
GroupFrom(list2, sublist, out) ==
    IF list2 = <<>>
    THEN (IF sublist # <<>> THEN Append(out, sublist) ELSE out)
    ELSE LET v == Head(list2) IN
         IF sublist = <<>> \/ sublist[Len(sublist)] \in {v, v - 1}
         THEN GroupFrom(Tail(list2), Append(sublist, v), out)
         ELSE GroupFrom(Tail(list2), <<v>>, Append(out, sublist))
\* A faulty variant of group_nums: the list is not sorted first.
group_nums_unsorted(list) == GroupFrom(list, <<>>, <<>>)
\* list2 = sorted(list), then the loop
group_nums(list) == GroupFrom(Sorted(list), <<>>, <<>>)

\* vars_dict = {v.num: v for v in vars}: the keys in the order of their
\* first occurrence, and the position in vars of the object kept for a key
\* (the last one with that number)
RECURSIVE KeysFrom(_, _, _)
KeysFrom(list, k, acc) ==
    IF k > Len(list) THEN acc
    ELSE KeysFrom(list, k + 1,
                  IF \E j \in 1..Len(acc) : acc[j] = list[k].num THEN acc
                  ELSE Append(acc, list[k].num))
Keys(list) == KeysFrom(list, 1, <<>>)
vars_dict(list, num) ==
    CHOOSE k \in 1..Len(list) :
        list[k].num = num /\ \A j \in (k + 1)..Len(list) : list[j].num # num

\* len(FS100.Variable(var.type, 0, 0).val_to_bytes()): the exception raised
\* by val_to_bytes when val is the integer 0, "" when none is
ValToBytesRaises(type) ==
    CASE type = VarType_STRING -> "AttributeError"
      [] type \in PositionTypes -> "TypeError"
      [] OTHER -> ""

\* the exception _read_consecutive_variables(vs) raises before it sends
\* anything, "" when none
ReadConsecutiveRaises(vs) ==
    LET nums == [j \in 1..Len(vs) |-> vs[j].num]
        sorted == Sorted(nums) IN
    IF Len(vs) = 0 THEN "ValueError"
    ELSE IF ValToBytesRaises(vs[1].type) # "" THEN ValToBytesRaises(vs[1].type)
    ELSE IF \E j \in 1..Len(vs) : vs[j].type # vs[1].type THEN "ValueError"
    ELSE IF sorted # [j \in 1..(sorted[Len(sorted)] - sorted[1] + 1) |-> sorted[1] + j - 1]
    THEN "ValueError"
    ELSE ""

\* A faulty variant of ReadConsecutiveReq: the number of variables is not
\* made even.
ReadConsecutiveReqOdd(vs) ==
    FS100ReqPacket(HEADER_DIVISION_ROBOT_CONTROL, 0, vs[1].type + 648, vs[1].num,
                   0, 51, Payload(PackI(Len(vs))), 4)
\* the plural request: command var.type + 0x288, service 0x33, the number of
\* variables (made even for the types of one byte) as data
ReadConsecutiveReq(vs) ==
    LET var_count == IF ValSize(vs[1].type) = 1 /\ Len(vs) % 2 = 1
                     THEN Len(vs) + 1 ELSE Len(vs) IN
    FS100ReqPacket(HEADER_DIVISION_ROBOT_CONTROL, 0, vs[1].type + 648, vs[1].num,
                   0, 51, Payload(PackI(var_count)), 4)

\* for ix, v in enumerate(vars): v.set_val(ans.data[4 + size*ix:4 + size*(ix+1)])
\* from position ix on, up to the first set_val that raises
RECURSIVE SetVals(_, _, _, _, _)
SetVals(list, cur, ix, size, data) ==
    IF ix >= Len(cur) THEN [vars |-> list, exc |-> ""]
    ELSE LET o == set_val(list[cur[ix + 1]],
                          Slice(data, 4 + size * ix, 4 + size * (ix + 1))) IN
         IF o.exc # "" THEN [vars |-> [list EXCEPT ![cur[ix + 1]] = o.var], exc |-> o.exc]
         ELSE SetVals([list EXCEPT ![cur[ix + 1]] = o.var], cur, ix + 1, size, data)

\* _read_consecutive_variables after _transmit
rcv_fin(t) ==
    /\ me(t).pc = "rcv_fin"
    /\ errno' = [errno EXCEPT ![me(t).inst] = me(t).ret.added_status]
    /\ LET f == me(t)
           o == SetVals(f.vars, f.cur, 0, ValSize(f.vars[f.cur[1]].type), f.ret.data) IN
       IF f.ret.status # ERROR_SUCCESS
       THEN Set(t, SubReturn(f, f.ret.status))
       ELSE IF o.exc # ""
       THEN Set(t, [f EXCEPT !.vars = o.vars, !.pc = "done",
                             !.result = Raised(o.exc), !.ans = f.ret])
       ELSE Set(t, SubReturn([f EXCEPT !.vars = o.vars], f.ret.status))
    /\ UNCHANGED <<lock, sock>>

\* read_variables(vars), up to the loop over the runs
read_variables(t, i, list) ==
    /\ MayCall(t)
    /\ Set(t, [Begin(t, "read_variables", i) EXCEPT
                   !.vars = list, !.keys_lists = group_nums(Keys(list)),
                   !.rv_ret = ERROR_SUCCESS, !.pc = "rvs_loop"])
    /\ UNCHANGED <<lock, sock, errno>>

\* read_variable(vars_dict[k]) for the first key k of pend, called by
\* read_variables
ReadOneOf(f, pend) ==
    LET k == vars_dict(f.vars, Head(pend)) IN
    CallTransmit([f EXCEPT !.pending = Tail(pend), !.cur = <<k>>],
                 ReqToBytes(ReadVariableReq(f.vars[k])),
                 TRANSMISSION_SEND_AND_RECV, "rv_fin")

\* the loop of read_variables, up to the next _transmit: the next key of a
\* run read one by one, else the next run, else return ret
rvs_loop(t) ==
    /\ me(t).pc = "rvs_loop"
    /\ LET f == me(t) IN
       IF f.pending # <<>> THEN Set(t, ReadOneOf(f, f.pending))
       ELSE IF f.keys_lists = <<>>
       THEN Set(t, [f EXCEPT !.pc = "done", !.result = Returned(f.rv_ret)])
       ELSE LET keys_consecutive == Head(f.keys_lists)
                g == [f EXCEPT !.keys_lists = Tail(@)]
                cur == [j \in 1..Len(keys_consecutive) |->
                            vars_dict(f.vars, keys_consecutive[j])]
                vs == [j \in 1..Len(cur) |-> f.vars[cur[j]]] IN
            IF Len(keys_consecutive) = 1 \/ vs[1].type = VarType_STRING
            THEN Set(t, ReadOneOf(g, keys_consecutive))
            ELSE IF ReadConsecutiveRaises(vs) # ""
            THEN Set(t, [g EXCEPT !.pc = "done",
                                  !.result = Raised(ReadConsecutiveRaises(vs))])
            ELSE Set(t, CallTransmit([g EXCEPT !.cur = cur],
                                     ReqToBytes(ReadConsecutiveReq(vs)),
                                     TRANSMISSION_SEND_AND_RECV, "rcv_fin"))
    /\ UNCHANGED <<lock, sock, errno>>

----------------------------------------------------------------------------
(* The controller and the callers' inputs *)

\* status 1 with added status 0x3040, status 2 with added status 0x2010
Failure1 == <<1, 12352>>
Failure2 == <<2, 8208>>

\* a datagram that makes a file transfer go on: success without terminal bit
Continues(d) ==
    /\ AnsDecodable(d)
    /\ FS100AnsPacket(d).status = ERROR_SUCCESS
    /\ ~IsTerminal(FS100AnsPacket(d).block_no)

LoopOps == {"get_file_list", "send_file", "recv_file"}

VarOps == {"read_variable", "read_variables"}

\* the datagrams a controller may answer to thread t now, c being the
\* inputs of the run
Answers(t, c) ==
    IF me(t).op \in VarOps THEN c.var_answers
    ELSE {d \in c.answers :
            me(t).op \in LoopOps /\ me(t).nrecv >= c.blocks => ~Continues(d)}

Fields(status, added_status, block_no, data) ==
    [status |-> status, added_status |-> added_status, block_no |-> block_no,
     data |-> data]
Datagram(r) == ControllerAnswer(r.status, r.added_status, r.block_no, r.data)

\* answers when several threads run: success with and without the terminal
\* bit, a failure, and a datagram cut before the added status
AnswerFieldsConc ==
    {Fields(0, 0, Blk(1, FALSE), <<>>), Fields(0, 0, Blk(1, TRUE), <<>>),
     Fields(Failure1[1], Failure1[2], Blk(0, FALSE), <<>>)}
AnswersConc ==
    {Datagram(r) : r \in AnswerFieldsConc}
        \cup {Slice(Datagram(Fields(0, 0, Blk(1, FALSE), <<>>)), 0, 29)}

\* answers to one thread: block numbers 1, 2 and 3|terminal with payloads,
\* two failures, a payload that is not UTF-8, datagrams cut to 29 and 30 bytes
AnswerFieldsSeq ==
    {Fields(0, 0, Blk(1, FALSE), <<65>>), Fields(0, 0, Blk(2, FALSE), <<66, 10>>),
     Fields(0, 0, Blk(3, TRUE), <<67>>), Fields(0, 0, Blk(2, TRUE), <<255>>),
     Fields(Failure1[1], Failure1[2], Blk(0, FALSE), <<>>),
     Fields(Failure2[1], Failure2[2], Blk(1, TRUE), <<>>)}
AnswersSeq ==
    {Datagram(r) : r \in AnswerFieldsSeq}
        \cup {Slice(Datagram(Fields(0, 0, Blk(1, FALSE), <<65>>)), 0, 29),
              Slice(Datagram(Fields(0, 0, Blk(1, TRUE), <<65>>)), 0, 30)}

\* 'J', 'd/J' and a job name of 33 bytes
NameJ == <<74>>
PathJ == <<100, 47, 74>>
LongName == [k \in 1..33 |-> 74]
\* a text of 31 bytes
LongText == [k \in 1..31 |-> 74]

\* local files: missing, empty, and of the lengths around the chunk size
LocalFilesConc == {<<1>>}
LocalFilesSeq ==
    {<<>>, <<0>>, <<1>>, <<CHUNK_SIZE - 1>>, <<CHUNK_SIZE>>, <<CHUNK_SIZE + 1>>,
     <<2 * CHUNK_SIZE>>, <<950>>}

\* answers to the reads of variables: a count of 2 followed by the values
\* 1 and 2 of two bytes each, one byte that is not UTF-8, no data, the two
\* failures, and a datagram cut to 29 bytes
VarAnswerFields ==
    {Fields(0, 0, Blk(0, FALSE), <<2, 0, 0, 0, 1, 0, 2, 0>>),
     Fields(0, 0, Blk(0, FALSE), <<255>>),
     Fields(0, 0, Blk(0, FALSE), <<>>),
     Fields(Failure1[1], Failure1[2], Blk(0, FALSE), <<>>),
     Fields(Failure2[1], Failure2[2], Blk(0, FALSE), <<>>)}
VarAnswers ==
    {Datagram(r) : r \in VarAnswerFields}
        \cup {Slice(Datagram(Fields(0, 0, Blk(0, FALSE), <<>>)), 0, 29)}

\* the variables a caller reads: bytes, integers, strings, positions
VarB(n) == Variable(VarType_BYTE, n, <<>>)
VarI(n) == Variable(VarType_INTEGER, n, <<>>)
VarS(n) == Variable(VarType_STRING, n, <<>>)
VarP(n) == Variable(VarType_ROBOT_POSITION, n, <<>>)
SingleVars == {VarB(0), VarI(0), VarS(0), VarP(0)}
VarLists ==
    {<<>>, <<VarI(3), VarI(5), VarI(6)>>, <<VarB(2), VarB(0), VarB(1)>>,
     <<VarS(0), VarS(1)>>, <<VarI(1), VarB(2)>>, <<VarP(0), VarP(1)>>,
     <<Variable(VarType_INTEGER, 3, <<7>>), Variable(VarType_INTEGER, 1, <<7>>)>>,
     <<VarI(0), VarI(2), VarB(3)>>, <<VarI(1), VarB(3)>>, <<VarI(1), VarI(1)>>}

\* The inputs of a run: the instances each thread uses, the controller's
\* datagrams, the socket errors, the callers' arguments.  When two threads run
\* t1 uses r1 and t2 uses r1 or r2 (the same instance or another one).
ConcInputs ==
    [blocks |-> MaxBlocksConc,
     insts |-> [t \in Threads |-> IF t = "t1" THEN {"r1"} ELSE Insts],
     answers |-> AnswersConc, errors |-> {[errno |-> <<>>]},
     files |-> LocalFilesConc, isdir |-> {TRUE},
     names |-> {NameJ}, texts |-> {}, paths |-> {NameJ}, lists |-> {<<>>},
     var_answers |-> {}, single_vars |-> {}, var_lists |-> {}]
SeqInputs ==
    [blocks |-> MaxBlocks,
     insts |-> [t \in Threads |-> {"r1"}],
     answers |-> AnswersSeq, errors |-> SocketErrors,
     files |-> LocalFilesSeq, isdir |-> BOOLEAN,
     names |-> {NameJ, LongName}, texts |-> {NameJ, LongText}, paths |-> {PathJ},
     lists |-> {<<>>, <<NameJ>>},
     var_answers |-> VarAnswers, single_vars |-> SingleVars, var_lists |-> VarLists]

----------------------------------------------------------------------------
(* Specifications *)

Init == InitLock /\ InitSockets /\ th = [t \in Threads |-> Frame0]

RECURSIVE SumCalls(_)
SumCalls(T) ==
    IF T = {} THEN 0
    ELSE LET t == CHOOSE x \in T : TRUE IN th[t].ncalls + SumCalls(T \ {t})
\* another operation may be called in this run
MoreCalls == SumCalls(Threads) < MaxCalls

\* thread t calls a robot-control command
CallCommand(t, c) ==
    /\ MoreCalls
    /\ \E i \in c.insts[t] :
         \/ switch_power(t, i)
         \/ \E n \in c.names : select_job(t, i, n)
         \/ \E x \in c.texts : show_text_on_pendant(t, i, x)

\* thread t calls a file-control operation
CallFile(t, c) ==
    /\ MoreCalls
    /\ \E i \in c.insts[t] :
         \/ delete_file(t, i, NameJ)
         \/ \E l \in c.lists : get_file_list(t, i, NameJ, l)
         \/ \E d \in c.isdir : recv_file(t, i, NameJ, d)
         \/ \E p \in c.paths, l \in c.files : send_file(t, i, p, l)

\* thread t calls a read of variables
CallVariable(t, c) ==
    /\ MoreCalls
    /\ \E i \in c.insts[t] :
         \/ \E v \in c.single_vars : read_variable(t, i, v)
         \/ \E l \in c.var_lists : read_variables(t, i, l)

\* thread t goes on in the read of variables it is executing
ContinueVariable(t) == rv_fin(t) \/ rvs_loop(t) \/ rcv_fin(t)

\* thread t goes on in the operation it is executing
Continue(t, c) ==
    \/ tx_acquire(t)
    \/ tx_io(t, Answers(t, c), c.errors)
    \/ tx_finish(t)
    \/ cmd_errno(t) \/ cmd_return(t)
    \/ df_fin(t)
    \/ gl_loop(t) \/ gl_fin(t)
    \/ rf_loop(t) \/ rf_fin(t)
    \/ sf_loop(t) \/ sf_fin(t)
    \/ Return(t)

\* threads t1 and t2 calling operations of the instances r1 and r2
Next ==
    \E t \in Threads :
        CallCommand(t, ConcInputs) \/ CallFile(t, ConcInputs) \/ Continue(t, ConcInputs)
Spec == Init /\ [][Next]_vars

\* one thread calling operations of one instance
NextSeq ==
    \/ CallCommand("t1", SeqInputs) \/ CallFile("t1", SeqInputs)
    \/ CallVariable("t1", SeqInputs)
    \/ Continue("t1", SeqInputs) \/ ContinueVariable("t1")
SpecSeq == Init /\ [][NextSeq]_vars

\* _group_nums on its own: the lists of at most MaxAddrs addresses of
\* 0..MaxAddr, duplicates included, and the list of the example
GroupInputs ==
    UNION {[1..n -> 0..MaxAddr] : n \in 0..MaxAddrs} \cup {<<5, 6, 7, 10, 1, 2>>}
InitGroup ==
    /\ InitLock /\ InitSockets
    /\ \E l \in GroupInputs :
         th = [t \in Threads |->
                 IF t = "t1"
                 THEN [Frame0 EXCEPT !.op = "_group_nums", !.pc = "gn_call", !.arg = l]
                 ELSE Frame0]
\* keys_lists = [sublist for sublist in self._group_nums(keys)]
CallGroupNums(t) ==
    /\ me(t).pc = "gn_call"
    /\ Set(t, [me(t) EXCEPT !.keys_lists = group_nums(me(t).arg), !.pc = "gn_done"])
    /\ UNCHANGED <<lock, sock, errno>>
NextGroup == CallGroupNums("t1")
SpecGroup == InitGroup /\ [][NextGroup]_vars

\* FS100PacketHeader on its own: the field values of a header.  Every
\* combination of the limits of the fields (block_no = n + 0x80000000 * top),
\* and every data_size and every req_id with the other fields fixed
HeaderInputs ==
    [data_size : {0, 1, 255, 256, CHUNK_SIZE, 65535},
     division : {HEADER_DIVISION_ROBOT_CONTROL, HEADER_DIVISION_FILE_CONTROL},
     ack : {HEADER_ACK_REQUEST, HEADER_ACK_NOT_REQUEST},
     req_id : {0, 1, 255},
     block_no : {Blk(n, top) : n \in {0, 1, 256, 65536, 16777216, 2147483647},
                               top \in BOOLEAN}]
    \cup [data_size : 0..65535, division : {HEADER_DIVISION_FILE_CONTROL},
          ack : {HEADER_ACK_NOT_REQUEST}, req_id : {0}, block_no : {Blk(3, TRUE)}]
    \cup [data_size : {0}, division : {HEADER_DIVISION_ROBOT_CONTROL},
          ack : {HEADER_ACK_REQUEST}, req_id : 0..255, block_no : {Blk(0, FALSE)}]
InitHeader ==
    /\ InitLock /\ InitSockets
    /\ \E h \in HeaderInputs :
         th = [t \in Threads |->
                 IF t = "t1"
                 THEN [Frame0 EXCEPT !.op = "FS100PacketHeader", !.pc = "hdr_made",
                                     !.arg = h]
                 ELSE Frame0]
\* FS100PacketHeader(None, data_size, division, ack, req_id, block_no).to_bytes()
CallHeaderToBytes(t) ==
    /\ me(t).pc = "hdr_made"
    /\ LET h == FS100PacketHeader(me(t).arg.data_size, me(t).arg.division, me(t).arg.ack,
                                  me(t).arg.req_id, me(t).arg.block_no) IN
       Set(t, [me(t) EXCEPT !.ans_packet = HeaderToBytes(h), !.pc = "hdr_bytes"])
    /\ UNCHANGED <<lock, sock, errno>>
\* a request with these header fields (ack and block_no assigned after the
\* construction, as the file operations do): to_bytes() of the request
CallReqToBytes(t) ==
    /\ me(t).pc = "hdr_made"
    /\ LET req == [FS100ReqPacket(me(t).arg.division, me(t).arg.req_id, 0, 0, 0, 0,
                                  Payload(<<>>), me(t).arg.data_size)
                      EXCEPT !.ack = me(t).arg.ack, !.block_no = me(t).arg.block_no] IN
       Set(t, [me(t) EXCEPT !.ans_packet = ReqToBytes(req).head, !.pc = "req_bytes"])
    /\ UNCHANGED <<lock, sock, errno>>
\* FS100PacketHeader(packet) on the bytes
CallHeaderFromBytes(t) ==
    /\ me(t).pc \in {"hdr_bytes", "req_bytes"}
    /\ Set(t, [me(t) EXCEPT !.list = <<HeaderFromBytes(me(t).ans_packet)>>,
                            !.pc = "hdr_parsed"])
    /\ UNCHANGED <<lock, sock, errno>>
NextHeader ==
    \/ CallHeaderToBytes("t1") \/ CallReqToBytes("t1") \/ CallHeaderFromBytes("t1")
SpecHeader == InitHeader /\ [][NextHeader]_vars

\* Variable.val_to_bytes and Variable.set_val on their own. A variable is
\* made with a value and packed, and a new variable of the type takes the
\* bytes; or a variable takes the data of an answer, as read_variable has it
\* do, and write_variable builds its request from it. The values are the
\* ends and the middle of each range: zero, the negative values, the longest
\* text (16 bytes); three floats are numbers binary32 does not hold, one of
\* them too large to pack
FloatVal(sign, exp, frac, low) == [sign |-> sign, exp |-> exp, frac |-> frac, low |-> low]
RobotPos(data_type, form, pos) ==
    [n \in {"data_type", "form", "tool_no", "user_coor_no", "extended_form", "pos"} |->
        CASE n = "data_type" -> data_type
          [] n = "form" -> form
          [] n = "tool_no" -> 1
          [] n = "user_coor_no" -> 0
          [] n = "extended_form" -> 2147483647
          [] OTHER -> pos]
AxisPos(data_type, pos) ==
    [n \in {"data_type", "1st_axis", "2nd_axis", "3rd_axis", "4th_axis", "5th_axis",
            "6th_axis", "7th_axis"} |->
        CASE n = "data_type" -> data_type
          [] n = "1st_axis" -> pos[1]
          [] n = "2nd_axis" -> pos[2]
          [] n = "3rd_axis" -> pos[3]
          [] n = "4th_axis" -> pos[4]
          [] n = "5th_axis" -> pos[5]
          [] n = "6th_axis" -> pos[6]
          [] OTHER -> pos[7]]
AxisVectors ==
    {[j \in 1..7 |-> 0], [j \in 1..7 |-> -1], [j \in 1..7 |-> (j - 4) * 100000],
     <<-2147483647 - 1, 2147483647, -65536, 65535, -256, 255, 0>>}
CodecValues(type) ==
    CASE type \in {VarType_IO, VarType_BYTE} -> {0, 1, 127, 128, 255}
      [] type = VarType_REGISTER -> {0, 1, 255, 256, 65535}
      [] type = VarType_INTEGER -> {-32768, -257, -1, 0, 1, 256, 32767}
      [] type = VarType_DOUBLE -> {-2147483647 - 1, -65537, -1, 0, 1, 16777216, 2147483647}
      [] type = VarType_REAL ->
            {FloatVal(0, 0, 0, 0), FloatVal(1, 0, 0, 0), FloatVal(0, 0, 1, 0),
             FloatVal(0, 127, 0, 0), FloatVal(1, 127, 4194304, 0),
             FloatVal(1, 129, 8388607, 0), FloatVal(0, 254, 8388607, 0),
             FloatVal(0, 255, 0, 0), FloatVal(1, 255, 0, 0),
             FloatVal(0, 123, 5033164, 429496730), FloatVal(0, 127, 0, 1),
             FloatVal(0, 254, 8388607, HalfUlp)}
      [] type = VarType_STRING ->
            {[text |-> <<>>], [text |-> <<65>>], [text |-> <<0>>], [text |-> <<233, 65>>],
             [text |-> [k \in 1..16 |-> 64 + k]], [text |-> [k \in 1..8 |-> 127 + k * 240]],
             [text |-> <<72, 101, 108, 108, 111, 44, 32, 87, 111, 114, 108, 100, 33>>]}
      [] type = VarType_ROBOT_POSITION ->
            {RobotPos(d, f, p) : d \in {0, 16}, f \in {0, 2147483647}, p \in AxisVectors}
      [] OTHER -> {AxisPos(d, p) : d \in {0, 16, 2147483647}, p \in AxisVectors}
CodecData(type) ==
    CASE type \in {VarType_IO, VarType_BYTE} -> {<<0>>, <<255>>, <<128, 7, 7, 7>>}
      [] type \in {VarType_REGISTER, VarType_INTEGER} ->
            {<<0, 0>>, <<255, 255>>, <<0, 128>>, <<255, 127>>, <<1, 2, 3, 4>>}
      [] type = VarType_DOUBLE ->
            {<<0, 0, 0, 0>>, <<255, 255, 255, 255>>, <<0, 0, 0, 128>>,
             <<255, 255, 255, 127>>, <<1, 2, 3, 4, 5, 6>>}
      [] type = VarType_REAL ->
            {<<0, 0, 0, 0>>, <<0, 0, 0, 128>>, <<0, 0, 128, 63>>, <<205, 204, 204, 61>>,
             <<255, 255, 127, 127>>, <<0, 0, 128, 255>>, <<1, 0, 0, 0>>,
             <<0, 0, 192, 191, 9, 9>>}
      [] type = VarType_STRING ->
            {<<>>, <<65>>, <<195, 169, 65>>, [k \in 1..16 |-> 64 + k],
             [k \in 1..16 |-> IF k % 2 = 1 THEN 223 ELSE 191]}
      [] type = VarType_ROBOT_POSITION ->
            {[k \in 1..48 |-> 0],
             [k \in 1..48 |-> IF k <= 20 THEN (IF k % 4 = 0 THEN 127 ELSE 255) ELSE 255],
             [k \in 1..48 |-> IF k <= 20 THEN (5 * k) % 128 ELSE 255 - k],
             [k \in 1..52 |-> IF k % 4 = 0 THEN 128 - (k \div 4) ELSE k]}
      [] OTHER ->
            {[k \in 1..32 |-> 0],
             [k \in 1..32 |-> IF k = 4 THEN 127 ELSE 255],
             [k \in 1..32 |-> IF k <= 4 THEN (5 * k) % 128 ELSE 255 - k],
             [k \in 1..36 |-> IF k = 4 THEN 0 ELSE IF k % 4 = 0 THEN 128 ELSE k]}
InitCodec ==
    /\ InitLock /\ InitSockets
    /\ \E type \in VarType_IO..VarType_EXTERNAL_AXIS, num \in {0, 1} :
         \/ \E v \in CodecValues(type) :
              th = [t \in Threads |->
                      IF t = "t1"
                      THEN [Frame0 EXCEPT !.op = "Variable", !.pc = "var_made",
                                          !.vars = <<Variable(type, num, <<v>>)>>]
                      ELSE Frame0]
         \/ \E raw \in CodecData(type) :
              th = [t \in Threads |->
                      IF t = "t1"
                      THEN [Frame0 EXCEPT !.op = "Variable", !.pc = "var_data",
                                          !.vars = <<Variable(type, num, <<>>)>>,
                                          !.ans_packet = raw]
                      ELSE Frame0]
\* var.val_to_bytes()
CallValToBytes(t) ==
    /\ me(t).pc = "var_made"
    /\ LET o == val_to_bytes(me(t).vars[1]) IN
       IF o.exc # ""
       THEN Set(t, [me(t) EXCEPT !.pc = "done", !.result = Raised(o.exc)])
       ELSE Set(t, [me(t) EXCEPT !.ans_packet = o.bytes, !.pc = "var_bytes"])
    /\ UNCHANGED <<lock, sock, errno>>
\* Variable(type, num).set_val(raw_bytes) on the bytes val_to_bytes returned
CallSetVal(t) ==
    /\ me(t).pc = "var_bytes"
    /\ LET o == set_val(Variable(me(t).vars[1].type, me(t).vars[1].num, <<>>),
                        me(t).ans_packet) IN
       IF o.exc # ""
       THEN Set(t, [me(t) EXCEPT !.pc = "done", !.result = Raised(o.exc)])
       ELSE Set(t, [me(t) EXCEPT !.vars = Append(@, o.var), !.pc = "var_decoded"])
    /\ UNCHANGED <<lock, sock, errno>>
\* var.set_val(ans.data), as in read_variable
CallSetValOfAnswer(t) ==
    /\ me(t).pc = "var_data"
    /\ LET o == set_val(me(t).vars[1], me(t).ans_packet) IN
       IF o.exc # ""
       THEN Set(t, [me(t) EXCEPT !.pc = "done", !.result = Raised(o.exc)])
       ELSE Set(t, [me(t) EXCEPT !.vars = <<o.var>>, !.pc = "var_read"])
    /\ UNCHANGED <<lock, sock, errno>>
\* the request write_variable(var) hands to _transmit
CallWriteVariableReq(t) ==
    /\ me(t).pc = "var_read"
    /\ LET o == val_to_bytes(me(t).vars[1]) IN
       IF o.exc # ""
       THEN Set(t, [me(t) EXCEPT !.pc = "done", !.result = Raised(o.exc)])
       ELSE Set(t, [me(t) EXCEPT !.packet = ReqToBytes(WriteVariableReq(me(t).vars[1])),
                                 !.pc = "var_written"])
    /\ UNCHANGED <<lock, sock, errno>>
NextCodec ==
    \/ CallValToBytes("t1") \/ CallSetVal("t1") \/ CallSetValOfAnswer("t1")
    \/ CallWriteVariableReq("t1")
SpecCodec == InitCodec /\ [][NextCodec]_vars

\* Two threads calling single-shot commands, each scheduled again and again:
\* a thread that can take a step of its command takes one. sendall and
\* recvfrom return or raise within the timeout _connect sets on the socket
\* (a controller that never answers is the socket error without errno), so
\* the step of _transmit on the socket is always possible; acquire() is
\* possible only while the lock is free or the thread's own
ContinueCommand(t) ==
    \/ tx_acquire(t)
    \/ tx_io(t, Answers(t, ConcInputs), ConcInputs.errors)
    \/ tx_finish(t)
    \/ cmd_errno(t) \/ cmd_return(t)
    \/ Return(t)
NextLive == \E t \in Threads : CallCommand(t, ConcInputs) \/ ContinueCommand(t)
SpecLive ==
    Init /\ [][NextLive]_vars /\ \A t \in Threads : WF_vars(ContinueCommand(t))

\* one thread calling file transfers of one instance, the controller
\* answering without payload: success with or without the terminal bit, or a
\* failure
TransferInputs ==
    [blocks |-> MaxBlocks,
     insts |-> [t \in Threads |-> {"r1"}],
     answers |-> {Datagram(Fields(0, 0, Blk(1, FALSE), <<>>)),
                  Datagram(Fields(0, 0, Blk(1, TRUE), <<>>)),
                  Datagram(Fields(Failure1[1], Failure1[2], Blk(0, FALSE), <<>>))},
     errors |-> {[errno |-> <<>>]},
     files |-> {<<1>>, <<CHUNK_SIZE + 1>>}, isdir |-> {TRUE},
     names |-> {}, texts |-> {}, paths |-> {NameJ}, lists |-> {<<>>},
     var_answers |-> {}, single_vars |-> {}, var_lists |-> {}]
ContinueTransfer(t) ==
    \/ tx_acquire(t)
    \/ tx_io(t, Answers(t, TransferInputs), TransferInputs.errors)
    \/ tx_finish(t)
    \/ df_fin(t)
    \/ gl_loop(t) \/ gl_fin(t)
    \/ rf_loop(t) \/ rf_fin(t)
    \/ sf_loop(t) \/ sf_fin(t)
    \/ Return(t)
NextTransfer == CallFile("t1", TransferInputs) \/ ContinueTransfer("t1")
SpecTransfer == Init /\ [][NextTransfer]_vars

----------------------------------------------------------------------------
(* MotionSequencer: a waypoint sequence walked by a background context *)

\* The background context is thread "t2": its frame holds the position of
\* the context in pc ("idle" when no context is alive) and the sequencer in
\* arg: state is Idle, Moving, Cancelling, Done or Failed; flag is the
\* cancellation flag; n the number of waypoints and k the one being moved
\* to; polls counts the status reads of the waypoint; events are the calls of
\* the status callback and cmds the commands issued to the controller, in
\* order; contexts counts the background contexts spawned and not exited;
\* asked holds the state in which cancel() found the sequence, observed
\* whether the context has seen the flag. The caller is thread "t1".
MaxWaypoints == 2
MaxPolls == 2
MaxMotionCalls == 3
Sequencer0 ==
    [state |-> "Idle", flag |-> FALSE, n |-> 0, k |-> 0, polls |-> 0,
     events |-> <<>>, cmds |-> <<>>, contexts |-> 0, asked |-> <<>>,
     observed |-> FALSE]
Event(kind, index) == [kind |-> kind, index |-> index]
Alive(b) == me(b).pc # "idle"
SetBoth(t, f, b, g) == th' = [th EXCEPT ![t] = f, ![b] = g]
\* the outcomes of a command of the sequencer: the status returned and the
\* added status, which the command leaves in errno
CommandOutcomes ==
    {<<ERROR_SUCCESS, 0>>, Failure1, <<ERROR_CONNECTION, ERROR_CONNECTION>>}
InitMotion ==
    /\ InitLock /\ InitSockets
    /\ th = [t \in Threads |->
               IF t = "t2" THEN [Frame0 EXCEPT !.op = "MotionSequencer", !.arg = Sequencer0]
               ELSE Frame0]
\* start(waypoints, statusCallback) with n waypoints: a background context
\* is spawned in state Moving, unless one is alive
start(t, b, n) ==
    /\ MayCall(t) /\ me(t).ncalls < MaxMotionCalls
    /\ IF Alive(b)
       THEN Set(t, [me(t) EXCEPT !.ncalls = @ + 1, !.op = "start"])
       ELSE SetBoth(t, [me(t) EXCEPT !.ncalls = @ + 1, !.op = "start"],
                    b, [me(b) EXCEPT !.pc = "ms_move",
                                     !.arg = [Sequencer0 EXCEPT !.state = "Moving", !.n = n,
                                                                !.k = 1, !.contexts = 1]])
    /\ UNCHANGED <<lock, sock, errno>>
\* the move command for waypoint k: on failure Failed, the callback with the
\* error indicator, stop; on success the callback with the index
ms_move(b) ==
    /\ me(b).pc = "ms_move"
    /\ \E o \in CommandOutcomes :
         /\ errno' = [errno EXCEPT ![me(b).inst] = o[2]]
         /\ LET q == [me(b).arg EXCEPT !.cmds = Append(@, "move")] IN
            IF o[1] # ERROR_SUCCESS
            THEN Set(b, [me(b) EXCEPT !.pc = "idle",
                            !.arg = [q EXCEPT !.state = "Failed", !.contexts = @ - 1,
                                              !.events = Append(@, Event("error", q.k))]])
            ELSE Set(b, [me(b) EXCEPT !.pc = "ms_poll",
                            !.arg = [q EXCEPT !.polls = 0,
                                              !.events = Append(@, Event("index", q.k))]])
    /\ UNCHANGED <<lock, sock>>
\* the top of a poll iteration: the cancellation flag is looked at
ms_poll(b) ==
    /\ me(b).pc = "ms_poll"
    /\ IF me(b).arg.flag
       THEN Set(b, [me(b) EXCEPT !.pc = "ms_hold_on",
                       !.arg = [@ EXCEPT !.state = "Cancelling", !.observed = TRUE]])
       ELSE Set(b, [me(b) EXCEPT !.pc = "ms_status"])
    /\ UNCHANGED <<lock, sock, errno>>
\* the status read of a poll iteration: on failure Failed, stop; when the
\* controller is not running, the next waypoint, or after the last one Done
\* and the callback with the finished marker; else the next iteration
ms_status(b) ==
    /\ me(b).pc = "ms_status"
    /\ \E o \in CommandOutcomes, running \in BOOLEAN :
         /\ running => me(b).arg.polls < MaxPolls
         /\ errno' = [errno EXCEPT ![me(b).inst] = o[2]]
         /\ LET q == [me(b).arg EXCEPT !.cmds = Append(@, "get_status"), !.polls = @ + 1] IN
            IF o[1] # ERROR_SUCCESS
            THEN Set(b, [me(b) EXCEPT !.pc = "idle",
                            !.arg = [q EXCEPT !.state = "Failed", !.contexts = @ - 1]])
            ELSE IF running
            THEN Set(b, [me(b) EXCEPT !.pc = "ms_poll", !.arg = q])
            ELSE IF q.k < q.n
            THEN Set(b, [me(b) EXCEPT !.pc = "ms_move", !.arg = [q EXCEPT !.k = @ + 1]])
            ELSE Set(b, [me(b) EXCEPT !.pc = "idle",
                            !.arg = [q EXCEPT !.state = "Done", !.contexts = @ - 1,
                                              !.events = Append(@, Event("finished", 0))]])
    /\ UNCHANGED <<lock, sock>>
\* A faulty variant of ms_hold_on: the sequence is done without a command.
ms_hold_on_skipped(b) ==
    /\ me(b).pc = "ms_hold_on"
    /\ Set(b, [me(b) EXCEPT !.pc = "idle",
                   !.arg = [@ EXCEPT !.state = "Done", !.contexts = @ - 1]])
    /\ UNCHANGED <<lock, sock, errno>>
\* the flag was seen: the power command hold on
ms_hold_on(b) ==
    /\ me(b).pc = "ms_hold_on"
    /\ \E o \in CommandOutcomes :
         /\ errno' = [errno EXCEPT ![me(b).inst] = o[2]]
         /\ Set(b, [me(b) EXCEPT !.pc = "ms_hold_off",
                        !.arg = [@ EXCEPT !.cmds = Append(@, "hold_on")]])
    /\ UNCHANGED <<lock, sock>>
\* the power command hold off, then Done, stop
ms_hold_off(b) ==
    /\ me(b).pc = "ms_hold_off"
    /\ \E o \in CommandOutcomes :
         /\ errno' = [errno EXCEPT ![me(b).inst] = o[2]]
         /\ Set(b, [me(b) EXCEPT !.pc = "idle",
                        !.arg = [@ EXCEPT !.cmds = Append(@, "hold_off"), !.state = "Done",
                                          !.contexts = @ - 1]])
    /\ UNCHANGED <<lock, sock>>
\* cancel(): the flag is set, and the caller waits
cancel(t, b) ==
    /\ MayCall(t) /\ me(t).ncalls < MaxMotionCalls
    /\ SetBoth(t, [me(t) EXCEPT !.ncalls = @ + 1, !.op = "cancel", !.pc = "cancel_wait"],
               b, [me(b) EXCEPT !.arg = [@ EXCEPT !.flag = TRUE,
                                                 !.asked = IF Alive(b)
                                                           THEN <<me(b).arg.state>>
                                                           ELSE @]])
    /\ UNCHANGED <<lock, sock, errno>>
\* A faulty variant of cancel_return: cancel() does not wait.
cancel_return_at_once(t, b) ==
    /\ me(t).pc = "cancel_wait"
    /\ Set(t, [me(t) EXCEPT !.pc = "idle"])
    /\ UNCHANGED <<lock, sock, errno>>
\* cancel() returns when the background context has exited
cancel_return(t, b) ==
    /\ me(t).pc = "cancel_wait"
    /\ ~Alive(b)
    /\ Set(t, [me(t) EXCEPT !.pc = "idle"])
    /\ UNCHANGED <<lock, sock, errno>>
NextMotion ==
    \/ \E n \in 1..MaxWaypoints : start("t1", "t2", n)
    \/ cancel("t1", "t2") \/ cancel_return("t1", "t2")
    \/ ms_move("t2") \/ ms_poll("t2") \/ ms_status("t2")
    \/ ms_hold_on("t2") \/ ms_hold_off("t2")
SpecMotion == InitMotion /\ [][NextMotion]_vars

----------------------------------------------------------------------------
(* What an operation has done so far *)

Done(t) == me(t).pc = "done"
Succeeded(t) == Done(t) /\ me(t).result = Returned(ERROR_SUCCESS)
HasReturned(t) == Done(t) /\ me(t).result.kind = "status"
HasRaised(t) == Done(t) /\ me(t).result.kind = "raised"

\* the header fields of the k-th packet the operation sent
SentHeader(t, k) == HeaderFromBytes(me(t).log[k].head)
\* the last answer _transmit returned to the operation
LastAns(t) == me(t).alog[Len(me(t).alog)]

FileOps == {"delete_file", "get_file_list", "send_file", "recv_file"}
SingleShot ==
    {"switch_power", "select_job", "show_text_on_pendant", "delete_file", "read_variable"}

\* the thread is inside the window of _transmit: it has acquired the lock
\* there and has not released it yet
InWindow(t) == me(t).pc \in {"tx_io", "tx_finish"}

----------------------------------------------------------------------------
(* Claims *)

\* C1: at most one thread at a time is inside the window of _transmit
\* between the acquisition of the lock and its release (socket open, send,
\* optional receive, socket close), whatever the instances they use.
C1_LockSerialization == Cardinality({t \in Threads : InWindow(t)}) <= 1

\* a thread is inside the window while another one waits for the lock
C1_Witness ==
    \E t, u \in Threads :
        /\ t # u /\ InWindow(t) /\ me(u).pc = "tx_acquire"
        /\ me(t).inst # me(u).inst

\* between the first packet of a file operation and its return
InTransfer(t) == me(t).op \in FileOps /\ Len(me(t).log) >= 1 /\ ~Done(t)
\* this step hands a packet of thread u to the socket
Sends(u) == th'[u].nsend > th[u].nsend

\* C2: while a thread is executing send_file, recv_file, get_file_list or
\* delete_file, between the sending of its first packet and its return, no
\* packet of another thread's operation is sent.
C2_FileTransferAtomicity ==
    [][\A t, u \in Threads : (t # u /\ InTransfer(t)) => ~Sends(u)]_vars

\* a file transfer is under way while another thread waits to transmit
C2_Witness ==
    \E t, u \in Threads :
        /\ t # u /\ InTransfer(t) /\ me(t).op = "recv_file" /\ Len(me(t).log) >= 2
        /\ me(u).pc = "tx_acquire"

\* C3 (as claimed): after any public operation returns or raises, the
\* calling thread's hold count on the lock is the same as before the call.
C3_LockReleasedOnEveryExit == \A t \in Threads : Done(t) => HoldCount(t) = me(t).held0

\* the socket error caught by the last _transmit of the operation, which
\* expected a reply, and the added status it stands for
CaughtError(t) == me(t).caught # <<>> /\ me(t).direction = TRANSMISSION_SEND_AND_RECV
TransmitReturned(t) == me(t).pc \notin {"tx_acquire", "tx_io", "tx_finish"}
AddedOfCaught(t) ==
    LET e == me(t).caught[1].errno IN IF e = <<>> THEN ERROR_CONNECTION ELSE e[1]

\* the method that called _transmit has ended (read_variables calls
\* _transmit through read_variable and _read_consecutive_variables), and the
\* status it returned, <<>> if it raised
CallerReturned(t) ==
    IF me(t).op = "read_variables" THEN me(t).pc \in {"rvs_loop", "done"} ELSE Done(t)
CallerStatus(t) ==
    IF me(t).op = "read_variables" THEN me(t).sub_ret
    ELSE IF HasReturned(t) THEN <<me(t).result.status>> ELSE <<>>

\* C4: when the send or the receive of a _transmit call that expects a reply
\* raises a socket error, _transmit returns an answer of status
\* ERROR_CONNECTION whose added status is the error number (ERROR_CONNECTION
\* when the error has none), and the calling operation returns that status
\* with that added status in errno, without raising.
C4_ConnectionErrorMapping ==
    \A t \in Threads :
        (CaughtError(t) /\ TransmitReturned(t)) =>
            /\ me(t).ret.status = ERROR_CONNECTION
            /\ me(t).ret.added_status = AddedOfCaught(t)
            /\ CallerReturned(t) =>
                   /\ CallerStatus(t) = <<ERROR_CONNECTION>>
                   /\ errno[me(t).inst] = AddedOfCaught(t)

\* a file transfer has ended on a receive that raised an error with a number
C4_Witness ==
    \E t \in Threads :
        /\ CaughtError(t) /\ Done(t) /\ me(t).op = "recv_file"
        /\ me(t).caught[1].at = "recv" /\ me(t).caught[1].errno # <<>>
        /\ me(t).nrecv >= 2

\* C5 (as claimed): after any public operation returns, whatever its status,
\* the instance has no open socket.
C5_NoSocketAfterReturn == \A t \in Threads : HasReturned(t) => sock[me(t).inst] = None

\* C6: a single-shot command sends exactly one request packet and receives
\* at most one answer, whether the exchange succeeds, the controller reports
\* a failure or the socket fails: nothing is sent or awaited a second time.
C6_NoAutomaticRetry ==
    \A t \in Threads :
        me(t).op \in SingleShot =>
            /\ me(t).nsend <= 1 /\ me(t).nrecv <= 1 /\ Len(me(t).log) <= 1
            /\ HasReturned(t) => me(t).nsend = 1

\* single-shot commands have returned a controller failure and a connection
\* error after one exchange
C6_Witness ==
    \E t \in Threads :
        /\ HasReturned(t) /\ me(t).op = "delete_file" /\ me(t).nsend = 1
        /\ \/ me(t).result.status = Failure2[1] /\ me(t).nrecv = 1 /\ me(t).caught = <<>>
           \/ me(t).caught # <<>> /\ me(t).nrecv = 0

\* the datagram the last _transmit received is the controller's answer with
\* this status and added status
Answered(t, status, added_status) ==
    /\ me(t).caught = <<>> /\ me(t).nrecv = 1
    /\ \E r \in AnswerFieldsSeq :
         /\ r.status = status /\ r.added_status = added_status
         /\ me(t).ans_packet = Datagram(r)

\* C7: switch_power returns success when the controller answers status 0 and
\* added status 0; when the controller answers status 1 and added status
\* 0x3040 it returns that failure status and errno is 0x3040.
C7_SwitchPowerScenario ==
    \A t \in Threads :
        (HasReturned(t) /\ me(t).op = "switch_power") =>
            /\ Answered(t, 0, 0) =>
                   me(t).result = Returned(ERROR_SUCCESS) /\ errno[me(t).inst] = 0
            /\ Answered(t, 1, 12352) =>
                   me(t).result = Returned(1) /\ errno[me(t).inst] = 12352

\* switch_power has returned after the controller answered 1 / 0x3040
C7_Witness ==
    \E t \in Threads :
        HasReturned(t) /\ me(t).op = "switch_power" /\ Answered(t, 1, 12352)

\* the operation has had at least one request/answer exchange
Exchanged(t) == Len(me(t).alog) >= 1
\* the bitwise OR of the statuses of the answers a
RECURSIVE StatusOr(_)
StatusOr(a) == IF a = <<>> THEN 0 ELSE BitOr(Head(a).status, StatusOr(Tail(a)))

AnsweredWell(t) ==
    /\ me(t).op = "send_file" /\ HasReturned(t) /\ me(t).context > 0
    /\ Len(me(t).alog) = Len(me(t).log)
    /\ \A k \in 1..Len(me(t).alog) :
         /\ me(t).alog[k].status = ERROR_SUCCESS
         /\ IsTerminal(me(t).alog[k].block_no) <=> IsTerminal(SentHeader(t, k).block_no)

\* C9: for content of length L > 0 and a controller that answers every frame
\* with success, setting the terminal bit only in its answer to the terminal
\* frame, send_file sends the initial request with the bare filename
\* (ack = Request, block number 0) and then exactly ceil(L/400) chunk frames
\* in order, each with ack = NotRequest and awaiting an answer, the k-th with
\* block number k and bytes 400(k-1) .. min(400k, L) of the content, only the
\* last with the terminal bit; 950 bytes give 400, 400 and 150 bytes.
C9_SendFileChunkSequence ==
    \A t \in Threads :
        AnsweredWell(t) =>
            LET L == me(t).context
                n == (L + 399) \div 400 IN
            /\ Len(me(t).log) = n + 1
            /\ SentHeader(t, 1).ack = HEADER_ACK_REQUEST
            /\ SentHeader(t, 1).block_no = Blk(0, FALSE)
            /\ me(t).arg = PathJ => me(t).log[1].data = Payload(NameJ)
            /\ \A k \in 1..n :
                 /\ SentHeader(t, k + 1).ack = HEADER_ACK_NOT_REQUEST
                 /\ SentHeader(t, k + 1).block_no = Blk(k, k = n)
                 /\ me(t).log[k + 1].data = Chunk(400 * (k - 1), Min(400 * k, L))
                 /\ SentHeader(t, k + 1).data_size = Min(400 * k, L) - 400 * (k - 1)
                 /\ me(t).log[k + 1].direction = TRANSMISSION_SEND_AND_RECV
            /\ L = 950 =>
                 [k \in 1..n |-> SentHeader(t, k + 1).data_size] = <<400, 400, 150>>

\* a file of 950 bytes has been sent in three chunk frames
C9_Witness ==
    \E t \in Threads :
        AnsweredWell(t) /\ me(t).context = 950 /\ Len(me(t).log) = 4

\* C10 (as claimed): the last packet of a successful send_file is an
\* acknowledgment sent with no reply expected.
C10_AsClaimed ==
    \A t \in Threads :
        (me(t).op = "send_file" /\ Succeeded(t)) =>
            /\ me(t).log[Len(me(t).log)].direction = TRANSMISSION_SEND
            /\ me(t).nrecv = Len(me(t).log) - 1

\* C10: a successful send_file ends on the controller's answer with the
\* terminal bit, the first answer that carries it: every packet the client
\* sent awaited a reply and got one, and nothing is sent after that answer.
C10_SendFileEndsOnTerminalAnswer ==
    \A t \in Threads :
        (me(t).op = "send_file" /\ Succeeded(t)) =>
            /\ \A k \in 1..Len(me(t).log) :
                   me(t).log[k].direction = TRANSMISSION_SEND_AND_RECV
            /\ me(t).nsend = Len(me(t).log) /\ me(t).nrecv = Len(me(t).log)
            /\ Len(me(t).alog) = Len(me(t).log)
            /\ IsTerminal(LastAns(t).block_no) /\ LastAns(t).status = ERROR_SUCCESS
            /\ \A k \in 1..(Len(me(t).alog) - 1) : ~IsTerminal(me(t).alog[k].block_no)

\* send_file has succeeded after two chunk frames
C10_Witness ==
    \E t \in Threads :
        /\ me(t).op = "send_file" /\ Succeeded(t) /\ Len(me(t).log) = 3
        /\ IsTerminal(SentHeader(t, 3).block_no)

\* send_file is sending a content of length > 0 and so far the controller
\* has answered every frame with success, with the terminal bit in the
\* answers to the terminal frames only
WellSoFar(t) ==
    /\ me(t).op = "send_file" /\ me(t).context > 0
    /\ \A k \in 1..Len(me(t).alog) :
         /\ me(t).alog[k].status = ERROR_SUCCESS
         /\ IsTerminal(me(t).alog[k].block_no) <=> IsTerminal(SentHeader(t, k).block_no)
\* the length is a multiple of the chunk size, or one less
AtChunkBoundary(L) == L % 400 = 0 \/ L % 400 = 399

\* C11: send_file of a content whose length L is a multiple of 400, or one
\* less, against a controller that answers the terminal frame with the
\* terminal bit, sends at most ceil(L/400) chunk frames, of which exactly the
\* last carries the terminal bit (an exact multiple gets no extra frame), and
\* once that frame is answered it sends nothing more and returns success.
C11_FinalChunkFlag ==
    \A t \in Threads :
        (WellSoFar(t) /\ AtChunkBoundary(me(t).context)) =>
            LET n == (me(t).context + 399) \div 400 IN
            /\ Len(me(t).log) <= n + 1
            /\ \A k \in 2..Len(me(t).log) :
                   IsTerminal(SentHeader(t, k).block_no) <=> k = n + 1
            /\ Len(me(t).alog) = n + 1 =>
                   /\ me(t).pc \in {"sf_loop", "sf_fin", "done"}
                   /\ Done(t) => Succeeded(t)
            /\ HasReturned(t) => Len(me(t).alog) = n + 1

\* a content of 800 bytes has been sent in two chunk frames and send_file
\* has returned
C11_Witness ==
    \E t \in Threads :
        /\ WellSoFar(t) /\ me(t).context = 800 /\ Succeeded(t)
        /\ Len(me(t).log) = 3 /\ me(t).log[3].data = Chunk(400, 800)

\* the number of answers of a with status success
RECURSIVE Successes(_)
Successes(a) ==
    IF a = <<>> THEN 0
    ELSE (IF Head(a).status = ERROR_SUCCESS THEN 1 ELSE 0) + Successes(Tail(a))

RECURSIVE DataOf(_)
DataOf(a) == IF a = <<>> THEN <<>> ELSE Head(a).data \o DataOf(Tail(a))

\* the answers of a that do not carry the terminal bit
RECURSIVE NonTerminal(_)
NonTerminal(a) ==
    IF a = <<>> THEN <<>>
    ELSE (IF IsTerminal(Head(a).block_no) THEN <<>> ELSE <<Head(a)>>) \o NonTerminal(Tail(a))

\* C13 (as claimed): when recv_file returns success, the bytes it delivers
\* are the concatenation, in arrival order, of the payloads of the answers
\* that did not carry the terminal bit.
C13_AsClaimed ==
    \A t \in Threads :
        (me(t).op = "recv_file" /\ Succeeded(t)) =>
            me(t).file = <<DataOf(NonTerminal(me(t).alog))>>

\* C13: when recv_file returns success, the bytes it delivers are the
\* concatenation, in arrival order, of the payloads of all the answers it
\* received, the one carrying the terminal bit included; a local file exists
\* only after an exchange whose last answer reported success with the
\* terminal bit, and none exists while the exchange lasts or after a failure.
C13_RecvFileContent ==
    \A t \in Threads :
        me(t).op = "recv_file" =>
            /\ Succeeded(t) => me(t).file = <<DataOf(me(t).alog)>>
            /\ me(t).file # <<>> =>
                  /\ Done(t) /\ me(t).alog # <<>>
                  /\ LastAns(t).status = ERROR_SUCCESS
                  /\ IsTerminal(LastAns(t).block_no)
                  /\ \A k \in 1..Len(me(t).alog) : me(t).alog[k].status = ERROR_SUCCESS
            /\ (HasReturned(t) /\ ~Succeeded(t)) => me(t).file = <<>>

\* recv_file has returned success after two answers with different payloads,
\* the second with the terminal bit, and has written both payloads in order
C13_Witness ==
    \E t \in Threads :
        /\ me(t).op = "recv_file" /\ Succeeded(t)
        /\ Len(me(t).alog) = 2
        /\ me(t).alog[1].data = <<65>> /\ me(t).alog[2].data = <<67>>
        /\ me(t).file = << <<65, 67>> >>

\* C14: a step of get_file_list changes the caller's list only when it
\* returns success, the last answer having carried the terminal bit, and
\* then it appends to the list the lines of the concatenation of the payloads
\* of all the answers; every other step, and so an exchange that ends with a
\* nonzero status or an exception, leaves the list as the caller passed it.
C14_FileListExtension ==
    [][\A t \in Threads :
         (me(t).op = "get_file_list" /\ me(t).pc # "done") =>
            LET g == th'[t] IN
            IF g.pc = "done" /\ g.result = Returned(ERROR_SUCCESS)
            THEN /\ g.alog # <<>>
                 /\ IsTerminal(g.alog[Len(g.alog)].block_no)
                 /\ g.alog[Len(g.alog)].status = ERROR_SUCCESS
                 /\ g.list = me(t).list \o SplitLines(DataOf(g.alog))
            ELSE g.list = me(t).list]_vars

\* get_file_list has returned success after three answers, a line end in the
\* second one, and has appended the two lines to the list of one name
C14_Witness ==
    \E t \in Threads :
        /\ me(t).op = "get_file_list" /\ Succeeded(t)
        /\ Len(me(t).alog) = 3
        /\ DataOf(me(t).alog) = <<65, 66, 10, 67>>
        /\ me(t).list = <<NameJ, <<65, 66>>, <<67>> >>

\* _group_nums has yielded the runs of the list it was given
Grouped(t) == me(t).op = "_group_nums" /\ me(t).pc = "gn_done"
\* no address occurs twice in the list
Distinct(list) == \A j, k \in 1..Len(list) : list[j] = list[k] => j = k
\* the runs one after the other
RECURSIVE Flatten(_)
Flatten(runs) == IF runs = <<>> THEN <<>> ELSE Head(runs) \o Flatten(Tail(runs))
\* every element of the run is its predecessor plus one
Consecutive(run) == \A k \in 2..Len(run) : run[k] = run[k - 1] + 1
\* every element of the run is its predecessor or its predecessor plus one
NearlyConsecutive(run) == \A k \in 2..Len(run) : run[k] \in {run[k - 1], run[k - 1] + 1}
\* the first element of each later run is greater than the last element of
\* the run before it plus one
Maximal(runs) ==
    \A k \in 2..Len(runs) : runs[k][1] > runs[k - 1][Len(runs[k - 1])] + 1

OfOneType(list, types) ==
    list # <<>> /\ list[1].type \in types /\ \A k \in 1..Len(list) : list[k].type = list[1].type
\* the types that are not strings, and those of them that are not positions
NonStringTypes == VarType_IO..VarType_EXTERNAL_AXIS \ {VarType_STRING}
ScalarTypes == NonStringTypes \ PositionTypes
\* the runs of the addresses of the variables read_variables was given
RunsOf(t) == group_nums(Keys(me(t).vars))
\* the number of bytes of one value of the type in an answer
DecodedSize(type) ==
    CASE type = VarType_ROBOT_POSITION -> 48
      [] type \in PositionTypes -> 32
      [] OTHER -> ValSize(type)
\* where the value of the j-th variable of a run starts in the answer to the
\* request for the run: after the count in a plural answer
ValueOffset(run, j, type) == IF Len(run) >= 2 THEN 4 + DecodedSize(type) * (j - 1) ELSE 0
\* the operation ended with an exception raised inside _transmit, by the
\* socket or by the decoding of the datagram
RaisedInTransmit(t) == HasRaised(t) /\ me(t).packet # NoPacket /\ me(t).ret.none
\* every request the operation sent was answered with success, the answer
\* to the k-th request holding a value for every variable of the k-th run
ServedWell(t) ==
    /\ ~RaisedInTransmit(t)
    /\ Len(me(t).alog) = Len(me(t).log)
    /\ Len(me(t).alog) <= Len(RunsOf(t))
    /\ \A k \in 1..Len(me(t).alog) :
         /\ me(t).alog[k].status = ERROR_SUCCESS
         /\ Len(me(t).alog[k].data) >=
              ValueOffset(RunsOf(t)[k], Len(RunsOf(t)[k]) + 1, me(t).vars[1].type)
              + (IF Len(RunsOf(t)[k]) >= 2 THEN 0 ELSE DecodedSize(me(t).vars[1].type))
\* what read_variable assigns to the variable from the bytes of its value
SingleReadVal(var, raw) == set_val([var EXCEPT !.val = <<>>], raw).var.val

\* read_variables of variables of one of the types, with distinct addresses
\* and a run of two or more, when the controller serves every request: the
\* call returns, having sent one request per run, and every variable holds
\* the value read_variable assigns from the bytes of its value in the answer
BatchedReadEquivalence(types) ==
    \A t \in Threads :
        ( /\ me(t).op = "read_variables" /\ Done(t)
          /\ OfOneType(me(t).vars, types)
          /\ Distinct([k \in 1..Len(me(t).vars) |-> me(t).vars[k].num])
          /\ \E k \in 1..Len(RunsOf(t)) : Len(RunsOf(t)[k]) >= 2
          /\ ServedWell(t) ) =>
            /\ HasReturned(t)
            /\ Len(me(t).alog) = Len(RunsOf(t))
            /\ \A k \in 1..Len(RunsOf(t)) : \A j \in 1..Len(RunsOf(t)[k]) :
                 LET run == RunsOf(t)[k]
                     var == me(t).vars[vars_dict(me(t).vars, run[j])]
                     size == DecodedSize(var.type)
                     off == ValueOffset(run, j, var.type) IN
                 var.val = SingleReadVal(var, Slice(me(t).alog[k].data, off, off + size))

\* C17: for any run of two or more consecutive addresses of any type but
\* the string type, read_variables through the plural request completes and
\* assigns to each variable the value read_variable assigns for its address.
C17_BatchedReadEquivalence == BatchedReadEquivalence(NonStringTypes)

\* the same for the types that are not positions
C17_ForScalarTypes == BatchedReadEquivalence(ScalarTypes)

\* read_variables has read three bytes with one plural request
C17_ScalarWitness ==
    \E t \in Threads :
        /\ me(t).op = "read_variables" /\ Succeeded(t)
        /\ OfOneType(me(t).vars, {VarType_BYTE}) /\ Len(me(t).vars) = 3
        /\ ServedWell(t) /\ Len(me(t).log) = 1
        /\ [k \in 1..3 |-> me(t).vars[k].val] = << <<2>>, <<1>>, <<0>> >>

\* the addresses of the variables of the list
Addrs(list) == {list[k].num : k \in 1..Len(list)}
\* the request expected for address a of the list: a single read when a is
\* a run of its own or the variables are strings, a plural read when a
\* starts a longer run, none when a is inside one
ExpectedFor(list, a) ==
    IF a \notin Addrs(list) THEN <<>>
    ELSE IF list[1].type = VarType_STRING \/ Addrs(list) \cap {a - 1, a + 1} = {}
    THEN <<[cmd |-> list[1].type, inst |-> a, plural |-> FALSE]>>
    ELSE IF a - 1 \notin Addrs(list)
    THEN <<[cmd |-> list[1].type + 648, inst |-> a, plural |-> TRUE]>>
    ELSE <<>>
\* the requests expected for the addresses from a on, in ascending order
RECURSIVE ExpectedFrom(_, _)
ExpectedFrom(list, a) ==
    IF \A b \in Addrs(list) : b < a THEN <<>>
    ELSE ExpectedFor(list, a) \o ExpectedFrom(list, a + 1)
\* command number, instance and service of the packets of a wire log, read
\* from the bytes of the sub-header
SentReqs(log) ==
    [k \in 1..Len(log) |->
        [cmd |-> log[k].head[25] + 256 * log[k].head[26],
         inst |-> log[k].head[27] + 256 * log[k].head[28],
         plural |-> log[k].head[30] = 51]]
\* the operation of the frame was ended by an exception that comes from the
\* socket or from the bytes the controller sent
EndedByEnvironment(f) ==
    /\ f.pc = "done" /\ f.result.kind = "raised"
    /\ f.result.exc \in {"OSError", "struct.error", "UnicodeDecodeError"}
\* types and addresses of the variables of a list, in its order
Shape(list) == [k \in 1..Len(list) |-> [type |-> list[k].type, num |-> list[k].num]]

\* the requests of a read_variables of variables of one of the types with
\* distinct addresses, no sendall having failed: they are the first of the
\* expected requests, and all of them once the call has ended otherwise than
\* by an exception from the socket or the controller's bytes
Dispatch(f, types) ==
    ( /\ f.op = "read_variables" /\ OfOneType(f.vars, types)
      /\ Distinct([k \in 1..Len(f.vars) |-> f.vars[k].num])
      /\ f.nsend = Len(f.log) ) =>
        LET exp == ExpectedFrom(f.vars, 0) IN
        /\ Len(f.log) <= Len(exp)
        /\ SentReqs(f.log) = SubSeq(exp, 1, Len(f.log))
        /\ (f.pc = "done" /\ ~EndedByEnvironment(f)) => Len(f.log) = Len(exp)
DispatchStep(types) ==
    \A t \in Threads :
        /\ Dispatch(th'[t], types)
        /\ (me(t).op = "read_variables" /\ th'[t].op = "read_variables")
              => Shape(th'[t].vars) = Shape(me(t).vars)

\* C18: for a list of variables with distinct addresses read_variables
\* sends one single read for each run of length one, one single read per
\* address of a run of strings and one plural request for each other run of
\* two or more, in ascending order of the addresses; the caller's list
\* keeps its order and addresses.
C18_ReadVariablesDispatch == [][DispatchStep(VarType_IO..VarType_EXTERNAL_AXIS)]_vars

\* the same for the types that are not positions
C18_ForOtherTypes == [][DispatchStep(ScalarTypes \cup {VarType_STRING})]_vars

\* read_variables of the integers 3, 5 and 6 has returned after one single
\* read of 3 and one plural read from 5 on
C18_IntegerWitness ==
    \E t \in Threads :
        /\ me(t).op = "read_variables" /\ HasReturned(t)
        /\ Shape(me(t).vars) = Shape(<<VarI(3), VarI(5), VarI(6)>>)
        /\ SentReqs(me(t).log) =
             <<[cmd |-> VarType_INTEGER, inst |-> 3, plural |-> FALSE],
               [cmd |-> VarType_INTEGER + 648, inst |-> 5, plural |-> TRUE]>>

\* C19: the status read_variables returns is the bitwise OR of the statuses
\* of all its sub-requests (the synthesized answer of a connection error
\* included), so it is 0 exactly when every sub-request succeeded; and a
\* call that returns has made every sub-request expected for its list,
\* whichever of them failed.
C19_AggregateStatus ==
    \A t \in Threads :
        (me(t).op = "read_variables" /\ HasReturned(t)) =>
            /\ me(t).result.status = StatusOr(me(t).alog)
            /\ me(t).result.status = ERROR_SUCCESS
                  <=> \A k \in 1..Len(me(t).alog) : me(t).alog[k].status = ERROR_SUCCESS
            /\ ( /\ OfOneType(me(t).vars, VarType_IO..VarType_EXTERNAL_AXIS)
                 /\ Distinct([k \in 1..Len(me(t).vars) |-> me(t).vars[k].num]) )
                  => Len(me(t).alog) = Len(ExpectedFrom(me(t).vars, 0))

\* read_variables has returned the status of its first sub-request, which
\* failed, after a second sub-request that succeeded
C19_Witness ==
    \E t \in Threads :
        /\ me(t).op = "read_variables" /\ HasReturned(t)
        /\ Len(me(t).alog) = 2
        /\ me(t).alog[1].status = Failure2[1] /\ me(t).alog[2].status = ERROR_SUCCESS
        /\ me(t).result.status = Failure2[1]

\* the addresses an expected request asks for: its instance, and for a
\* plural request the run of addresses of the list that starts there
Covered(list, req) ==
    IF ~req.plural THEN {req.inst}
    ELSE {a \in Addrs(list) : a >= req.inst /\ \A b \in req.inst..a : b \in Addrs(list)}
\* the bytes of the value of address a in the answer to the request
ValueBytes(list, req, a, data) ==
    IF list[1].type = VarType_STRING THEN data
    ELSE IF req.plural
    THEN Slice(data, 4 + DecodedSize(list[1].type) * (a - req.inst),
               4 + DecodedSize(list[1].type) * (a - req.inst + 1))
    ELSE Slice(data, 0, DecodedSize(list[1].type))
\* a read_variables of variables of one type with distinct addresses has
\* returned: every variable of a sub-request answered with success holds
\* the value decoded from the answer
HoldsDecoded(f) ==
    ( /\ f.op = "read_variables" /\ f.pc = "done" /\ f.result.kind = "status"
      /\ OfOneType(f.vars, VarType_IO..VarType_EXTERNAL_AXIS)
      /\ Distinct([k \in 1..Len(f.vars) |-> f.vars[k].num]) ) =>
        LET exp == ExpectedFrom(f.vars, 0) IN
        /\ Len(f.alog) = Len(exp)
        /\ \A k \in 1..Len(exp) : \A a \in Covered(f.vars, exp[k]) :
             LET var == f.vars[vars_dict(f.vars, a)] IN
             f.alog[k].status = ERROR_SUCCESS =>
                var.val = SingleReadVal(var, ValueBytes(f.vars, exp[k], a, f.alog[k].data))
\* a step of read_variables changes the val of a variable only when it
\* handles a successful answer to a request that covers the variable
KeepsOnFailure(f, g) ==
    (f.op = "read_variables" /\ g.op = "read_variables") =>
        \A j \in 1..Len(f.vars) :
            g.vars[j] # f.vars[j] =>
                /\ f.pc \in {"rv_fin", "rcv_fin"}
                /\ f.ret.status = ERROR_SUCCESS
                /\ j \in {f.cur[k] : k \in 1..Len(f.cur)}
                /\ f.log # <<>>
                /\ f.vars[j].num \in Covered(f.vars, SentReqs(f.log)[Len(f.log)])

\* C20: after a read_variables call that returns, every variable of a run
\* whose request was answered with success holds the value decoded from that
\* answer, whatever happened to the other runs; and no step of the call
\* changes a variable of a run whose request failed, so that variable keeps
\* the val it had before the call.
C20_PartialResults ==
    [][\A t \in Threads : HoldsDecoded(th'[t]) /\ KeepsOnFailure(me(t), th'[t])]_vars

\* read_variables of two integers with val 7 has returned: the read of
\* address 1 failed and left 7, the read of address 3 succeeded and set 2
C20_Witness ==
    \E t \in Threads :
        /\ me(t).op = "read_variables" /\ HasReturned(t)
        /\ Len(me(t).alog) = 2
        /\ me(t).alog[1].status # ERROR_SUCCESS /\ me(t).alog[2].status = ERROR_SUCCESS
        /\ me(t).vars = <<Variable(VarType_INTEGER, 3, <<2>>),
                          Variable(VarType_INTEGER, 1, <<7>>)>>

\* the operation of the thread has raised ValueError
RaisedValueError(t) == HasRaised(t) /\ me(t).result.exc = "ValueError"
\* the call has sent nothing and has left errno, the socket, the lock and
\* the val of every variable as they were when it was made
NoSideEffect(t) ==
    /\ me(t).nsend = 0 /\ me(t).log = <<>> /\ me(t).nrecv = 0
    /\ errno[me(t).inst] = me(t).errno0
    /\ sock[me(t).inst] = me(t).sock0
    /\ HoldCount(t) = me(t).held0
    /\ me(t).vars \in VarLists

\* C21: whenever an operation raises ValueError, no packet has been sent
\* during the call and errno, the socket, the lock and the val of every
\* variable are as they were before the call.
C21_InvalidArgumentNoSideEffect ==
    \A t \in Threads : RaisedValueError(t) => NoSideEffect(t)

\* the same for the operations other than read_variables, and for
\* read_variables when the run of mixed types is the first run
C21_BeforeFirstRequest ==
    \A t \in Threads :
        (RaisedValueError(t) /\ (me(t).op = "read_variables" => Len(RunsOf(t)) = 1))
            => NoSideEffect(t)

\* ValueError raised by each of the four operations before the first request
C21_ReachedBy(op) ==
    \E t \in Threads : RaisedValueError(t) /\ me(t).op = op /\ me(t).log = <<>>
C21_SelectJobWitness == C21_ReachedBy("select_job")
C21_ShowTextWitness == C21_ReachedBy("show_text_on_pendant")
C21_SendFileWitness == C21_ReachedBy("send_file")
C21_ReadVariablesWitness == C21_ReachedBy("read_variables")

\* the state after a call that found the local file or directory missing:
\* the call has returned ERROR_NO_SUCH_FILE_OR_DIRECTORY with errno 0xe2b3,
\* the lock and the sockets are as before, nothing was sent
MissingLocalPost(t, i) ==
    /\ th'[t].pc = "done"
    /\ th'[t].result = Returned(ERROR_NO_SUCH_FILE_OR_DIRECTORY)
    /\ errno'[i] = 58035
    /\ lock' = lock /\ sock' = sock
    /\ th'[t].nsend = 0 /\ th'[t].log = <<>> /\ th'[t].alog = <<>>

\* C22: a call of send_file with a local file that does not exist, or of
\* recv_file with a local directory that does not exist, returns
\* ERROR_NO_SUCH_FILE_OR_DIRECTORY with errno = 0xe2b3 in one step that
\* neither acquires the lock nor opens a socket nor sends a packet.
C22_MissingLocalFile ==
    [][\A t \in Threads : \A i \in Insts :
         /\ \A p \in SeqInputs.paths :
              send_file(t, i, p, <<>>) => MissingLocalPost(t, i)
         /\ \A n \in SeqInputs.names :
              recv_file(t, i, n, FALSE) => MissingLocalPost(t, i)]_vars

\* recv_file has returned for a missing directory without a send attempt,
\* after a call that had also found its local file or directory missing
C22_Witness ==
    \E t \in Threads :
        /\ me(t).op = "recv_file" /\ HasReturned(t) /\ me(t).nsend = 0
        /\ me(t).ncalls = 2 /\ me(t).errno0 = ENOENT_ADDED
        /\ errno[me(t).inst] = ENOENT_ADDED

\* C23: read_variables given an empty list, or a list whose variables are
\* not all of the same type, sends nothing and ends by raising ValueError.
C23_ReadVariablesRejects ==
    \A t \in Threads :
        ( /\ me(t).op = "read_variables"
          /\ ~OfOneType(me(t).vars, VarType_IO..VarType_EXTERNAL_AXIS) ) =>
            /\ me(t).nsend = 0 /\ me(t).log = <<>>
            /\ Done(t) => RaisedValueError(t)

\* read_variables of the empty list has returned success
C23_EmptyListReturns ==
    \E t \in Threads :
        me(t).op = "read_variables" /\ me(t).vars = <<>> /\ Succeeded(t)
\* read_variables of an integer and a byte that are not neighbours has
\* returned success with both variables read
C23_MixedListRead ==
    \E t \in Threads :
        /\ me(t).op = "read_variables" /\ Succeeded(t)
        /\ Shape(me(t).vars) = Shape(<<VarI(1), VarB(3)>>)
        /\ \A k \in 1..2 : me(t).vars[k].val # <<>>

\* C24: the header parsed from the bytes of to_bytes, of a header or of a
\* request, has the data_size, division, ack, req_id and block_no the
\* header was made with; the bytes are 24 for a header and 32 for a request.
C24_HeaderRoundTrip ==
    \A t \in Threads :
        (me(t).op = "FS100PacketHeader" /\ me(t).pc = "hdr_parsed") =>
            /\ Len(me(t).ans_packet) \in {24, 32}
            /\ \A k \in 1..Len(me(t).ans_packet) : me(t).ans_packet[k] \in 0..255
            /\ me(t).list[1].data_size = me(t).arg.data_size
            /\ me(t).list[1].division = me(t).arg.division
            /\ me(t).list[1].ack = me(t).arg.ack
            /\ me(t).list[1].req_id = me(t).arg.req_id
            /\ me(t).list[1].block_no = me(t).arg.block_no

\* the header with the largest value of every field has been parsed from
\* the bytes of a request
C24_Witness ==
    \E t \in Threads :
        /\ me(t).op = "FS100PacketHeader" /\ me(t).pc = "hdr_parsed"
        /\ Len(me(t).ans_packet) = 32
        /\ me(t).arg = [data_size |-> 65535, division |-> 2, ack |-> 1, req_id |-> 255,
                        block_no |-> Blk(2147483647, TRUE)]
        /\ me(t).list[1] = me(t).arg

\* C25: a variable whose val set_val decodes from the bytes val_to_bytes
\* produced for a value holds that value, for every type and every value the
\* type holds (binary32 numbers for REAL), and neither call raises; the
\* request write_variable builds from a variable that took the data of an
\* answer carries the bytes set_val read, which decode to the same value.
Binary32(var) == var.type = VarType_REAL /\ var.val # <<>> => var.val[1].low = 0
BytesRead(type, raw) ==
    IF type = VarType_STRING THEN raw
    ELSE IF type = VarType_ROBOT_POSITION THEN Slice(raw, 0, 48)
    ELSE IF type \in PositionTypes THEN Slice(raw, 0, 32)
    ELSE Slice(raw, 0, ValSize(type))
C25_VariableCodecRoundTrip ==
    LET f == me("t1") IN
    f.op = "Variable" =>
        /\ f.pc = "var_decoded" /\ Binary32(f.vars[1]) =>
                /\ f.vars[2].val = f.vars[1].val
                /\ f.vars[2].type = f.vars[1].type /\ f.vars[2].num = f.vars[1].num
        /\ f.pc = "var_written" =>
                /\ f.packet.data.bytes = BytesRead(f.vars[1].type, f.ans_packet)
                /\ UnpackH(f.packet.head, 6) = Len(f.packet.data.bytes)
                /\ set_val(Variable(f.vars[1].type, f.vars[1].num, <<>>),
                           f.packet.data.bytes).var = f.vars[1]
        /\ Binary32(f.vars[1]) => ~HasRaised("t1")
\* C25 witness: the longest text, of two-byte characters, has come back from
\* its 16 bytes
C25_Witness ==
    LET f == me("t1") IN
    /\ f.op = "Variable" /\ f.pc = "var_decoded"
    /\ f.vars[1].type = VarType_STRING
    /\ Len(f.ans_packet) = 16 /\ Len(f.vars[2].val[1].text) = 8
    /\ f.vars[2].val = f.vars[1].val
\* negative axis values have come back from their bytes
C25_NegativeAxesWitness ==
    LET f == me("t1") IN
    /\ f.op = "Variable" /\ f.pc = "var_decoded"
    /\ f.vars[1].type = VarType_EXTERNAL_AXIS
    /\ f.vars[2].val[1]["1st_axis"] = -2147483647 - 1
    /\ f.vars[2].val[1]["7th_axis"] = 0
\* a negative integer read from an answer is in the request that writes it
\* back
C25_WriteBackWitness ==
    LET f == me("t1") IN
    /\ f.op = "Variable" /\ f.pc = "var_written"
    /\ f.vars[1].type = VarType_INTEGER /\ f.vars[1].val = <<-1>>
    /\ f.packet.data.bytes = <<255, 255>>
\* a float that binary32 does not hold comes back as the nearest one
C25_RoundedFloat ==
    LET f == me("t1") IN
    /\ f.op = "Variable" /\ f.pc = "var_decoded"
    /\ ~Binary32(f.vars[1])
    /\ f.vars[2].val[1] = RoundF(f.vars[1].val[1])

HoldsIssued(q) ==
    /\ Len(q.cmds) >= 2
    /\ q.cmds[Len(q.cmds) - 1] = "hold_on" /\ q.cmds[Len(q.cmds)] = "hold_off"
Finished(q) == q.events # <<>> /\ q.events[Len(q.events)] = Event("finished", 0)
C26_CancelReturnsAfterExit ==
    [][me("t1").pc = "cancel_wait" /\ me("t1")'.pc = "idle" => ~Alive("t2")]_vars
ReportsConnectionError(f) ==
    /\ f.result.kind = "status"
    /\ IF f.op = "read_variables"
       THEN BitOr(f.result.status, ERROR_CONNECTION) = f.result.status
       ELSE f.result.status = ERROR_CONNECTION
C27_SocketErrorReported ==
    \A t \in Threads :
        HasReturned(t) /\ me(t).caught # <<>> => ReportsConnectionError(me(t))
\* the same of the packets an answer is expected to, in the operations
\* that return; holds
C27_ReportedWhenAnswerExpected ==
    \A t \in Threads :
        HasReturned(t) /\ me(t).caught # <<>>
            /\ me(t).direction = TRANSMISSION_SEND_AND_RECV
            => ReportsConnectionError(me(t))
\* recv_file has returned success although sending its final acknowledgment
\* raised a socket error
C27_LostAckError ==
    /\ Succeeded("t1") /\ me("t1").op = "recv_file"
    /\ me("t1").caught # <<>> /\ me("t1").direction = TRANSMISSION_SEND
\* the same of get_file_list
C27_LostAckErrorOfList ==
    /\ Succeeded("t1") /\ me("t1").op = "get_file_list"
    /\ me("t1").caught # <<>> /\ me("t1").direction = TRANSMISSION_SEND

\* C28: every receive ends within the timeout, so every call of a
\* single-shot command ends, also when the controller never answers, and a
\* thread waiting for the transmission lock whose holder's operation has
\* ended acquires the lock.
InCall(t) == me(t).op \in SingleShot /\ me(t).pc \notin {"idle", "done"}
WaitsForEnded(t) ==
    /\ me(t).pc = "tx_acquire"
    /\ lock.owner \notin {NoThread, t}
    /\ me(lock.owner).pc \in {"idle", "done"}
C28_BoundedBlocking ==
    \A t \in Threads :
        /\ InCall(t) ~> Done(t)
        /\ WaitsForEnded(t) ~> lock.owner = t
\* every send and receive on the socket ends; holds
C28_ReceiveBounded ==
    \A t \in Threads : me(t).pc = "tx_io" ~> me(t).pc # "tx_io"
\* a command that finds the lock free or its own ends, also when the
\* controller never answers; holds
C28_ReturnsOnceAcquired ==
    \A t \in Threads : InCall(t) /\ me(t).pc # "tx_acquire" ~> Done(t)
\* a thread waits for the lock, which the other thread kept when its command
\* ended in an exception
C28_BlockedForever ==
    \E t \in Threads :
        /\ WaitsForEnded(t)
        /\ me(lock.owner).pc = "idle"
        /\ me(lock.owner).ncalls = 1
\* the controller did not answer and the command has returned
\* ERROR_CONNECTION
C28_TimeoutReturned ==
    /\ HasReturned("t1") /\ me("t1").op \in SingleShot
    /\ me("t1").caught # <<>> /\ me("t1").caught[1] = [errno |-> <<>>, at |-> "recv"]
    /\ me("t1").result = Returned(ERROR_CONNECTION)

\* the positions in the content of the bytes the chunk frames of a log
\* carry, in sending order (the first packet of the log is the request with
\* the file name)
RECURSIVE PositionsFrom(_, _)
PositionsFrom(log, k) ==
    IF k > Len(log) THEN <<>>
    ELSE [j \in 1..(log[k].data.hi - log[k].data.lo) |-> log[k].data.lo + j - 1]
             \o PositionsFrom(log, k + 1)
ChunkSizesRight(t) ==
    \A k \in 2..Len(me(t).log) :
        LET size == me(t).log[k].data.hi - me(t).log[k].data.lo IN
        /\ UnpackH(me(t).log[k].head, 6) = size
        /\ IF IsTerminal(SentHeader(t, k).block_no) THEN size \in 1..CHUNK_SIZE
           ELSE size = CHUNK_SIZE
ContentComplete(t) ==
    PositionsFrom(me(t).log, 2) = [j \in 1..me(t).context |-> j - 1]
C30_NothingSent ==
    /\ me("t1").op = "send_file" /\ Succeeded("t1") /\ Len(me("t1").log) = 1
\* send_file has returned success after a terminal chunk frame without a
\* byte: the controller answered the terminal frame without the terminal bit
C30_EmptyTerminalChunk ==
    /\ me("t1").op = "send_file" /\ Succeeded("t1")
    /\ \E k \in 2..Len(me("t1").log) :
           /\ IsTerminal(SentHeader("t1", k).block_no)
           /\ me("t1").log[k].data.hi = me("t1").log[k].data.lo

\* C29: in send_file, recv_file and get_file_list, once an answer has a
\* nonzero status (the controller's or that of a caught socket error) it is
\* the last answer and no packet is sent after the one it answers; the
\* operation does not raise, and when it has ended it has returned that
\* status with the added status in errno, the socket closed, the lock held
\* as often as before the call and no local file written.
TransferOps == {"send_file", "recv_file", "get_file_list"}
FailedAnswers(f) == {k \in 1..Len(f.alog) : f.alog[k].status # ERROR_SUCCESS}
C29_StopsAtFirstFailure ==
    LET f == me("t1") IN
    f.op \in TransferOps =>
        \A k \in FailedAnswers(f) :
            /\ k = Len(f.alog)
            /\ f.nsend = k
            /\ f.pc \in {"sf_loop", "rf_loop", "gl_loop", "sf_fin", "rf_fin", "gl_fin", "done"}
            /\ Done("t1") =>
                   /\ f.result = Returned(f.alog[k].status)
                   /\ errno[f.inst] = f.alog[k].added_status
                   /\ sock[f.inst] = None
                   /\ HoldCount("t1") = f.held0
                   /\ f.file = <<>>
\* C29 witness: recv_file has returned the controller's failure, which
\* answered its second packet
C29_Witness ==
    LET f == me("t1") IN
    /\ f.op = "recv_file" /\ HasReturned("t1")
    /\ Len(f.alog) = 2 /\ f.alog[2].status = Failure1[1] /\ f.nsend = 2
    /\ f.result = Returned(Failure1[1]) /\ sock[f.inst] = None
\* send_file has returned ERROR_CONNECTION after a chunk frame was not
\* answered
C29_TimeoutWitness ==
    LET f == me("t1") IN
    /\ f.op = "send_file" /\ HasReturned("t1")
    /\ Len(f.alog) = 2 /\ f.caught # <<>> /\ f.caught[1].at = "recv"
    /\ f.result = Returned(ERROR_CONNECTION) /\ HoldCount("t1") = f.held0

\* C31: the plural request of a run has the command of the variable type
\* plus 0x288, the smallest address of the run as instance and as data the
\* four bytes of the run length, made even for the types of one byte (IO,
\* BYTE); when the answer has been taken, the i-th value after its first
\* four bytes is the val of the variable of the run with address start + i.
\* Stated of the bytes of the packet and of every step of a thread.
InPluralRead(f) ==
    /\ f.op = "read_variables" /\ f.txret = "rcv_fin"
    /\ f.pc \in {"tx_acquire", "tx_io", "tx_finish", "rcv_fin"}
RunNums(f) == {f.vars[f.cur[j]].num : j \in 1..Len(f.cur)}
RunStart(f) == CHOOSE n \in RunNums(f) : \A m \in RunNums(f) : n <= m
EvenCount(type, n) ==
    IF type \in {VarType_IO, VarType_BYTE} /\ n % 2 = 1 THEN n + 1 ELSE n
PluralShape(f) ==
    InPluralRead(f) =>
        LET type == f.vars[f.cur[1]].type
            r == SentReqs(<<f.packet>>)[1] IN
        /\ \A j \in 1..Len(f.cur) : f.vars[f.cur[j]].type = type
        /\ r.plural /\ r.cmd = type + 648 /\ r.inst = RunStart(f)
        /\ UnpackH(f.packet.head, 6) = 4
        /\ f.packet.data.bytes = PackI(EvenCount(type, Len(f.cur)))
PluralAssigned(f, g) ==
    ( /\ InPluralRead(f) /\ f.pc = "rcv_fin" /\ f.ret.status = ERROR_SUCCESS
      /\ g.result.kind # "raised" ) =>
        LET type == f.vars[f.cur[1]].type
            size == DecodedSize(type) IN
        \A ix \in 0..(Len(f.cur) - 1) :
            /\ g.vars[f.cur[ix + 1]].num = RunStart(f) + ix
            /\ g.vars[f.cur[ix + 1]].type = type
            /\ g.vars[f.cur[ix + 1]].val =
                   <<ValOf(type, Slice(f.ret.data, 4 + size * ix, 4 + size * (ix + 1)))>>
C31_PluralRequestShape ==
    [][\A t \in Threads : PluralShape(th'[t]) /\ PluralAssigned(th[t], th'[t])]_vars
\* C31 witness: the bytes at 0, 1 and 2 were asked for with a count of 4 and
\* have the first three values of the answer
C31_Witness ==
    LET f == me("t1") IN
    /\ f.op = "read_variables" /\ Succeeded("t1")
    /\ Shape(f.vars) = Shape(<<VarB(2), VarB(0), VarB(1)>>)
    /\ Len(f.log) = 1 /\ f.log[1].data.bytes = <<4, 0, 0, 0>>
    /\ f.vars[2].val = <<1>> /\ f.vars[3].val = <<0>> /\ f.vars[1].val = <<2>>

\* C32: decoding fails for every received buffer of fewer than 32 bytes, and
\* the decode failure leaves the channel usable: the socket this _transmit
\* opened is closed and the lock released.  Stated of the step of _transmit
\* that decodes the bytes recvfrom returned.
DecodesShort(f) ==
    /\ f.pc = "tx_finish" /\ f.direction = TRANSMISSION_SEND_AND_RECV
    /\ f.caught = <<>> /\ Len(f.ans_packet) < HEADER_SIZE
C32_ShortAnswerFailsAndFrees ==
    [][\A t \in Threads :
          (DecodesShort(th[t]) /\ th'[t] # th[t]) =>
              /\ th'[t].result = Raised("struct.error")
              /\ th[t].to_disc => sock'[th[t].inst] = None
              /\ HoldCount(t)' = HoldCount(t) - 1]_vars
\* what the code does: a buffer of 30 bytes is decoded and the operation
\* goes on with the answer
C32_DecodedShortBuffer ==
    \E t \in Threads :
        /\ me(t).alog # <<>> /\ ~me(t).ret.none /\ Len(me(t).ans_packet) = 30
        /\ me(t).pc = me(t).txret
\* and the failure to decode a buffer of 29 bytes ends the operation with
\* the socket it opened still in _sock and the lock still held
C32_DecodeFailureKeepsLock ==
    \E t \in Threads :
        /\ me(t).result = Raised("struct.error") /\ Len(me(t).ans_packet) = 29
        /\ me(t).to_disc /\ sock[me(t).inst] # None /\ HoldCount(t) = me(t).held0 + 1
        /\ me(t).op = "switch_power"

\* C33: over any sequence of operations on an instance, every packet of a
\* robot-control command carries division 1 and is sent on a socket connected
\* to port 10040, and every packet of a file operation carries division 2 and
\* is sent on a socket connected to port 10041, also after an earlier
\* operation failed or raised.
DivisionOf(f) ==
    IF f.op \in FileOps THEN HEADER_DIVISION_FILE_CONTROL ELSE HEADER_DIVISION_ROBOT_CONTROL
PortOf(division) ==
    IF division = HEADER_DIVISION_FILE_CONTROL THEN UDP_PORT_FILE_CONTROL
    ELSE UDP_PORT_ROBOT_CONTROL
PortsRight(t) ==
    \A k \in 1..Len(me(t).log) :
        /\ SentHeader(t, k).division = DivisionOf(me(t))
        /\ me(t).log[k].port = PortOf(DivisionOf(me(t)))
C33_PortMatchesDivision == \A t \in Threads : PortsRight(t)
\* what the code keeps: the packets of an operation that found _sock None
\* carry their division and go to its port
C33_FreshSocketPortMatches == \A t \in Threads : me(t).sock0 = None => PortsRight(t)
\* a file request was sent to the robot-control port, on the socket an
\* earlier command left in _sock when it raised
C33_FileRequestOnRobotPort ==
    \E t \in Threads :
        /\ me(t).op \in FileOps /\ me(t).ncalls >= 2 /\ me(t).log # <<>>
        /\ SentHeader(t, 1).division = HEADER_DIVISION_FILE_CONTROL
        /\ me(t).log[1].port = UDP_PORT_ROBOT_CONTROL
\* and a command's request to the file-control port
C33_CommandOnFilePort ==
    \E t \in Threads :
        /\ me(t).op \notin FileOps /\ me(t).log # <<>>
        /\ SentHeader(t, 1).division = HEADER_DIVISION_ROBOT_CONTROL
        /\ me(t).log[1].port = UDP_PORT_FILE_CONTROL

\* C34: in send_file every chunk frame before the one that reaches the end
\* of the content carries its ordinal (from 1) with the top bit clear, and at
\* most one frame of a transfer carries the terminal bit, whatever the
\* controller answers: the top bit is not part of the count.
TerminalFrames(t) ==
    {k \in 2..Len(me(t).log) : IsTerminal(SentHeader(t, k).block_no)}
C34_TerminalBitOnce ==
    \A t \in Threads :
        me(t).op = "send_file" =>
            /\ Cardinality(TerminalFrames(t)) <= 1
            /\ \A k \in 2..Len(me(t).log) :
                   CHUNK_SIZE * (k - 1) < me(t).context =>
                       SentHeader(t, k).block_no = Blk(k - 1, FALSE)
\* what the code keeps: the k-th chunk frame carries k, with the top bit
\* exactly when 400 * k reaches the length of the content, so every frame
\* from the terminal one on carries the bit
C34_FramesNumbered ==
    \A t \in Threads :
        me(t).op = "send_file" =>
            \A k \in 2..Len(me(t).log) :
                SentHeader(t, k).block_no =
                    Blk(k - 1, CHUNK_SIZE * (k - 1) >= me(t).context)
\* two frames of one transfer carry the terminal bit, and the counter of the
\* loop went on from the number that had the bit
C34_TwoTerminalFrames ==
    /\ me("t1").op = "send_file" /\ Cardinality(TerminalFrames("t1")) >= 2
    /\ me("t1").block_no = Blk(Len(me("t1").log) - 1, TRUE)

\* C35: every write of an instance's errno is made by a thread that holds
\* the transmission lock, so that with two threads on one instance the errno
\* an operation leaves when it returns is the added status of its own answer.
C35_ErrnoWrittenUnderLock ==
    [][\A t \in Threads :
          /\ (th'[t] # th[t] /\ errno' # errno) => HoldCount(t) >= 1
          /\ ( /\ th[t].pc # "done" /\ th'[t].pc = "done"
               /\ th'[t].result.kind = "status" /\ th'[t].alog # <<>> ) =>
                  errno'[th'[t].inst] = th'[t].ans.added_status]_vars
\* what the code keeps: _sock is only changed by a thread that holds the lock
C35_SocketChangedUnderLock ==
    [][\A t \in Threads :
          (th'[t] # th[t] /\ sock' # sock) => (HoldCount(t) >= 1 \/ HoldCount(t)' >= 1)]_vars
\* a command is about to return the status of its answer while errno holds
\* the added status of the other thread's answer
C35_ErrnoOfAnotherOperation ==
    /\ me("t1").pc = "cmd_return" /\ me("t2").inst = me("t1").inst
    /\ me("t1").ans.status = Failure1[1] /\ me("t1").ans.added_status = Failure1[2]
    /\ errno[me("t1").inst] = 0 /\ HoldCount("t1") = 0
    /\ me("t2").pc \in {"cmd_return", "done"} /\ me("t2").ans.status = ERROR_SUCCESS

\* C36: the status an operation returns for a connection failure (a socket
\* error or timeout) is never a status returned for a failure the controller
\* reported in a real answer, nor for a missing local file or directory.
\* Stated of the operations that return the status of one answer.
FailureClass(f) ==
    CASE f.nsend = 0 -> "local"
      [] f.caught # <<>> /\ f.direction = TRANSMISSION_SEND_AND_RECV -> "connection"
      [] OTHER -> "controller"
Failed(t) ==
    /\ HasReturned(t) /\ me(t).op # "read_variables"
    /\ me(t).result.status # ERROR_SUCCESS
C36_FailureClassesDistinct ==
    \A t \in Threads :
        Failed(t) =>
            (me(t).result.status = ERROR_CONNECTION <=> FailureClass(me(t)) = "connection")
\* what the code keeps: a connection failure is returned as ERROR_CONNECTION,
\* a missing local file or directory as ERROR_NO_SUCH_FILE_OR_DIRECTORY, and
\* a controller's failure as the status byte of its answer
C36_StatusOfClass ==
    \A t \in Threads :
        Failed(t) =>
            me(t).result.status =
                CASE FailureClass(me(t)) = "connection" -> ERROR_CONNECTION
                  [] FailureClass(me(t)) = "local" -> ERROR_NO_SUCH_FILE_OR_DIRECTORY
                  [] OTHER -> UnpackB(me(t).ans_packet, 25)
\* a command returned ERROR_CONNECTION for an answer the controller sent
C36_ControllerStatusIsConnectionCode ==
    /\ Failed("t1") /\ me("t1").op = "switch_power"
    /\ me("t1").caught = <<>> /\ me("t1").nrecv = 1
    /\ me("t1").result.status = ERROR_CONNECTION
    /\ errno[me("t1").inst] = Failure1[2]

\* C37: when read_variables returns a nonzero status, errno is the added
\* status of one of its sub-requests that failed, not that of a later
\* sub-request that succeeded.
C37_ErrnoOfFailedSubRequest ==
    \A t \in Threads :
        ( /\ me(t).op = "read_variables" /\ HasReturned(t)
          /\ me(t).result.status # ERROR_SUCCESS ) =>
            \E k \in FailedAnswers(me(t)) : errno[me(t).inst] = me(t).alog[k].added_status
\* what the code keeps: errno is the added status of the last sub-request
\* (the first condition is the claim restricted to a failing last one)
C37_ErrnoOfLastSubRequest ==
    \A t \in Threads :
        (me(t).op = "read_variables" /\ HasReturned(t) /\ me(t).alog # <<>>) =>
            errno[me(t).inst] = LastAns(t).added_status
\* read_variables has returned the status of a failed read of one address
\* with errno 0, the added status of the plural read that followed
C37_ErrnoOfLaterSuccess ==
    LET f == me("t1") IN
    /\ f.op = "read_variables" /\ HasReturned("t1") /\ Len(f.alog) = 2
    /\ f.result.status = Failure2[1] /\ f.alog[1].added_status = Failure2[2]
    /\ f.alog[2].status = ERROR_SUCCESS /\ errno[f.inst] = 0
    /\ Len(f.log) = 2 /\ SentReqs(f.log)[2].plural

\* C38: after read_variables has returned success, every Variable object of
\* the list holds a val assigned from a controller answer to a request for
\* its own type that covers its address, also when two objects of the list
\* have the same address.
OwnBytes(var, req, data) ==
    IF var.type = VarType_STRING THEN data
    ELSE IF req.plural
    THEN Slice(data, 4 + DecodedSize(var.type) * (var.num - req.inst),
               4 + DecodedSize(var.type) * (var.num - req.inst + 1))
    ELSE Slice(data, 0, DecodedSize(var.type))
AssignedFromAnswer(f, j) ==
    \E k \in 1..Len(f.alog) :
        LET req == SentReqs(f.log)[k] IN
        /\ f.alog[k].status = ERROR_SUCCESS
        /\ req.cmd = f.vars[j].type + (IF req.plural THEN 648 ELSE 0)
        /\ f.vars[j].num \in Covered(f.vars, req)
        /\ f.vars[j].val = SingleReadVal(f.vars[j], OwnBytes(f.vars[j], req, f.alog[k].data))
C38_EveryObjectAssigned ==
    \A t \in Threads :
        (me(t).op = "read_variables" /\ Succeeded(t)) =>
            \A j \in 1..Len(me(t).vars) : AssignedFromAnswer(me(t), j)
\* what the code keeps: the same of the lists whose addresses are distinct,
\* and of the last object of each address in any list
C38_LastOfAddressAssigned ==
    \A t \in Threads :
        (me(t).op = "read_variables" /\ Succeeded(t)) =>
            \A j \in 1..Len(me(t).vars) :
                j = vars_dict(me(t).vars, me(t).vars[j].num) => AssignedFromAnswer(me(t), j)
\* read_variables of two objects for integer 1 has returned success after
\* one request: the second object has the value, the first still has None
C38_FirstOfTwoUnassigned ==
    LET f == me("t1") IN
    /\ f.op = "read_variables" /\ Succeeded("t1") /\ Len(f.log) = 1
    /\ Shape(f.vars) = Shape(<<VarI(1), VarI(1)>>)
    /\ f.vars[1].val = <<>> /\ f.vars[2].val = <<2>>

\* C39: send_file, recv_file and get_file_list end after finitely many
\* exchanges for every sequence of controller answers, also when the
\* controller keeps answering success without the terminal bit.  The loops
\* of recv_file and get_file_list keep no count: whether they go on depends
\* on the answer alone.  They end for every sequence of answers only if no
\* exchange brings the loop back to a state it was in before (the same
\* answer in ans, the same accumulated bytes, the lock and the socket as
\* they were), since the controller can then repeat its answers for ever.
AtLoopHead(f) ==
    \/ f.op = "recv_file" /\ f.pc = "rf_loop"
    \/ f.op = "get_file_list" /\ f.pc = "gl_loop"
    \/ f.op = "send_file" /\ f.pc = "sf_loop"
GoesOn(a) == ~a.none /\ a.status = ERROR_SUCCESS /\ ~IsTerminal(a.block_no)
Recurs(f) ==
    /\ AtLoopHead(f) /\ f.op # "send_file" /\ GoesOn(f.ret)
    /\ \E j \in 1..(Len(f.alog) - 1) :
          /\ f.alog[j] = f.ret
          /\ \A k \in j..(Len(f.alog) - 1) : f.alog[k].data = <<>>
C39_TransferNeverRecurs == \A t \in Threads : ~Recurs(me(t))
\* what the code does: after every answer of success without the terminal
\* bit, however many came before, each of the three loops calls _transmit
\* again and waits for another answer, the lock held
C39_GoesOnAfterEveryContinuingAnswer ==
    [][\A t \in Threads :
          (AtLoopHead(th[t]) /\ GoesOn(th[t].ret) /\ th'[t] # th[t]) =>
              /\ th'[t].pc = "tx_acquire" /\ th'[t].txret = th[t].pc
              /\ th'[t].direction = TRANSMISSION_SEND_AND_RECV
              /\ HoldCount(t) >= 1 /\ lock' = lock]_vars
\* recv_file is at the head of its loop for the third time with the answer
\* and the bytes it had there the first time
C39_SameStateThreeTimes ==
    LET f == me("t1") IN
    /\ f.op = "recv_file" /\ Recurs(f) /\ Len(f.alog) = 3 /\ f.raw = <<>>
    /\ f.alog[1] = f.alog[3] /\ f.alog[2] = f.alog[3]
    /\ HoldCount("t1") = 1 /\ sock[f.inst] = Socket(UDP_PORT_FILE_CONTROL)

====
